---------------------------- MODULE Spec2Model ----------------------------
(***************************************************************************)
(* polann: a small feed-forward neural network engine.                     *)
(*                                                                         *)
(* This module models                                                      *)
(*   - polann::core::Dataset<InputSize, OutputSize>  (dataset.hpp):        *)
(*     addSample, shuffle, numBatches, getBatch;                           *)
(*   - polann::core::ModelBuilder and polann::models::NN<Layers...>        *)
(*     (model_builder.hpp, nn.hpp) with polann::layers::Dense (dense.hpp): *)
(*     addLayer, build, predict, backward, and fit step by step;           *)
(*   - polann::loss::MSE (compute, gradient; scalar and AVX2 builds) and   *)
(*     polann::optimizers::SGD (step);                                     *)
(*   - predict called from several threads on one network;                 *)
(*   - models::ANN, the flat network (ann.hpp): addLayer.                  *)
(*                                                                         *)
(* Vectors are TLA+ sequences; the code's 0-based index k is position k+1. *)
(* A float is modelled by a binary fixed-point number of bounded range     *)
(* (an integer count of 1/Quantum, rounded after every operation, with     *)
(* +inf, -inf and NaN), size_t by integers modulo Word.                    *)
(***************************************************************************)
EXTENDS Integers, Sequences, FiniteSets, TLC

VARIABLES
    \* ---- Dataset<InputSize, OutputSize>
    inputs,             \* std::vector<float> inputs   (row-major, numSamples * InputSize)
    outputs,            \* std::vector<float> outputs  (row-major, numSamples * OutputSize)
    indices,            \* std::vector<size_t> indices
    numSamples,         \* size_t numSamples
    batchInputBuffer,   \* mutable std::vector<float> batchInputBuffer
    batchOutputBuffer,  \* mutable std::vector<float> batchOutputBuffer
    dsLast,             \* the last Dataset call: its arguments and what it returned or threw
    added,              \* history: the samples accepted by addSample, in order
    held,               \* the pair of spans a caller kept from a getBatch call
    \* ---- ModelBuilder / NN<Layers...>
    layers,             \* std::tuple<Layers...> layers
    built,              \* TRUE once build() has returned the NN
    netLast,            \* the last predict call: its input and its result
    netRef,             \* an earlier predict call kept for comparison
    fit,                \* the running NN::fit call: its arguments, locals and position
    sgd,                \* the SGD optimizer: its learningRate
    calls,              \* per thread: the predict call it is making on the shared network
    \* ---- polann::loss::MSE
    lossArgs,           \* the spans a caller of MSE holds
    lossLast,           \* the last MSE call: its arguments and what it returned, wrote or threw
    \* ---- models::ANN (the flat network of ann.hpp; polann::models::NN of nn.cpp is the same code)
    ann,                \* layers_, layerWeightOffsets_, biases_, activations_, weights_ and rng_
    annLast             \* the last addLayer call: its arguments, the object before it, how it ended

dsVars  == <<inputs, outputs, indices, numSamples, batchInputBuffer, batchOutputBuffer, dsLast, added, held>>
netVars == <<layers, built, netLast, netRef>>
fitVars == <<fit, sgd>>
concVars == <<calls>>
lossVars == <<lossArgs, lossLast>>
legacyVars == <<ann, annLast>>
vars    == <<inputs, outputs, indices, numSamples, batchInputBuffer, batchOutputBuffer, dsLast, added, held,
             layers, built, netLast, netRef, fit, sgd, calls, lossArgs, lossLast, ann, annLast>>

\* what the operations of the Dataset, of the network and of the loss leave alone
exceptData == <<netVars, fitVars, concVars, lossVars, legacyVars>>
exceptNet == <<dsVars, fitVars, concVars, lossVars, legacyVars>>
exceptLoss == <<dsVars, netVars, fitVars, concVars, legacyVars>>
exceptLegacy == <<dsVars, netVars, fitVars, concVars, lossVars>>

---------------------------------------------------------------------------
(* Bounds of the model *)

\* the dataset holds at most MaxSamples samples
MaxSamples == 3
\* size_t is modelled with WordBits bits
WordBits == 4
\* shuffle(seed) is called with seeds 0..MaxSeed
MaxSeed == 2
\* getBatch and numBatches are called with batchSize 0..MaxBatchSize (and near SIZE_MAX)
MaxBatchSize == 3
\* getBatch is called with batchIndex 0..MaxBatchIndex
MaxBatchIndex == 2
\* a network has at most MaxLayers layers
MaxLayers == 3
\* fit is called on a dataset of at most MaxFitSamples samples
MaxFitSamples == 2
\* fit is called with epochs 0..MaxEpochs
MaxEpochs == 2
\* fit is called with batchSize -1 (SIZE_MAX once converted) and 0..MaxFitBatchSize
MaxFitBatchSize == 2
\* a caller makes at most MaxSteps calls of SGD::step in a row
MaxSteps == 3
\* MaxThreads threads call predict on the same network
MaxThreads == 2
\* a caller makes at most MaxBackwards calls of Dense::backward in a row
MaxBackwards == 2
\* a flat network is given at most MaxFlatLayers layers of at most MaxNeurons neurons
MaxFlatLayers == 3
MaxNeurons == 2
\* MSE is called with spans of at most MaxLossLen floats
MaxLossLen == 17
\* a float keeps FloatFractionBits binary digits after the point
FloatFractionBits == 3
\* the largest finite float is 2 ^ FloatRangeBits
FloatRangeBits == 6

(* Program constants *)

\* Dataset<2, 1>: InputSize
InputSize == 2
\* Dataset<2, 1>: OutputSize
OutputSize == 1

Word == 2 ^ WordBits

---------------------------------------------------------------------------
(* float: values and arithmetic *)

\* a float x is represented by the integer x * Quantum
Quantum == 2 ^ FloatFractionBits
\* the largest finite float, +inf, -inf and NaN
FloatMax == (2 ^ FloatRangeBits) * Quantum
Inf == FloatMax + 1
NegInf == -Inf
NaN == FloatMax + 2

Abs(a) == IF a < 0 THEN -a ELSE a
Sign(a) == IF a < 0 THEN -1 ELSE IF a > 0 THEN 1 ELSE 0

\* the float literal k.0f, and a vector of such literals
F(k) == k * Quantum
Floats(s) == [i \in 1..Len(s) |-> F(s[i])]

\* a result beyond the finite range becomes an infinity
Saturate(k) == IF k > FloatMax THEN Inf ELSE IF k < -FloatMax THEN NegInf ELSE k
\* a / b for b > 0, rounded to the nearest integer
RoundDiv(a, b) == Sign(a) * (((2 * Abs(a)) + b) \div (2 * b))

\* static_cast<float>(n) of a size_t n
FromSize(n) == Saturate(n * Quantum)

\* -x, x + y, x - y, x * y, x / y on floats
\* (as functions, so that an operand is computed once)
FNeg(x) == IF x = NaN THEN NaN ELSE -x
Sum == [x \in Int, y \in Int |->
    IF x = NaN \/ y = NaN THEN NaN
    ELSE IF x \in {Inf, NegInf} THEN (IF y = -x THEN NaN ELSE x)
    ELSE IF y \in {Inf, NegInf} THEN y
    ELSE Saturate(x + y)]
FAdd(x, y) == Sum[x, y]
FSub(x, y) == Sum[x, FNeg(y)]
Product == [x \in Int, y \in Int |->
    IF x = NaN \/ y = NaN THEN NaN
    ELSE IF x \in {Inf, NegInf} \/ y \in {Inf, NegInf}
         THEN (IF x = 0 \/ y = 0 THEN NaN ELSE Sign(x) * Sign(y) * Inf)
    ELSE Saturate(RoundDiv(x * y, Quantum))]
FMul(x, y) == Product[x, y]
Quotient == [x \in Int, y \in Int |->
    IF x = NaN \/ y = NaN THEN NaN
    ELSE IF y = 0 THEN (IF x = 0 THEN NaN ELSE Sign(x) * Inf)
    ELSE IF y \in {Inf, NegInf} THEN (IF x \in {Inf, NegInf} THEN NaN ELSE 0)
    ELSE IF x \in {Inf, NegInf} THEN Sign(x) * Sign(y) * Inf
    ELSE Saturate(RoundDiv(Sign(y) * x * Quantum, Abs(y)))]
FDiv(x, y) == Quotient[x, y]
\* x > y on floats (false when either is NaN)
FGreater(x, y) == x # NaN /\ y # NaN /\ x > y

---------------------------------------------------------------------------
(* Helpers *)

\* Then(value), with value computed once (a LET definition is computed again at each of its
\* uses when TLC evaluates ENABLED)
With(value, Then(_)) == CHOOSE r \in {Then(v) : v \in {value}} : TRUE

\* s[k] of the code (0-based)
At(s, k) == s[k + 1]

Min(a, b) == IF a < b THEN a ELSE b

Range(s) == {s[i] : i \in 1..Len(s)}

Zeros(n) == [i \in 1..n |-> 0]

\* row r (0-based) of a row-major matrix with rows of the given width
Row(m, r, width) == SubSeq(m, r * width + 1, (r + 1) * width)

\* std::vector::resize(n) when n is larger than the size: new elements are value-initialised
Resize(v, n) == IF Len(v) < n THEN v \o Zeros(n - Len(v)) ELSE v

\* the samples callers pass to addSample when the dataset holds k samples: a well-sized one,
\* and ones whose input or output is too short or too long. The Dataset only moves the floats
\* and never looks at them, so the well-sized sample is given values no other sample has.
Samples(k) ==
    { [in |-> <<(10 * k) + 1, (10 * k) + 2>>, out |-> <<(10 * k) + 7>>],
      [in |-> <<5>>,       out |-> <<7>>],
      [in |-> <<1, 2, 3>>, out |-> <<8>>],
      [in |-> <<1, 2>>,    out |-> <<>>],
      [in |-> <<3, 4>>,    out |-> <<7, 8>>] }

\* the size_t arguments callers pass as batchSize: small ones and the two largest
BatchSizes == (0..MaxBatchSize) \cup {Word - 2, Word - 1}
\* the size_t arguments callers pass as batchIndex
BatchIndexes == 0..MaxBatchIndex

---------------------------------------------------------------------------
(* Dataset::addSample *)

\* mutant: only the input's size is checked
SizeMismatchInputOnly(in, out) == Len(in) # InputSize

\* the size check of addSample(span, span)
SizeMismatch(in, out) == Len(in) # InputSize \/ Len(out) # OutputSize

\* mutant: indices.push_back(++numSamples)
AppendSamplePreIncrement(in, out) ==
    /\ inputs' = inputs \o in
    /\ outputs' = outputs \o out
    /\ indices' = Append(indices, (numSamples + 1) % Word)
    /\ numSamples' = (numSamples + 1) % Word

\* mutant: the rows are inserted at begin() instead of end()
AppendSampleAtFront(in, out) ==
    /\ inputs' = in \o inputs
    /\ outputs' = out \o outputs
    /\ indices' = Append(indices, numSamples)
    /\ numSamples' = (numSamples + 1) % Word

\* the append of addSample: inputs.insert, outputs.insert, indices.push_back(numSamples++)
AppendSample(in, out) ==
    /\ inputs' = inputs \o in
    /\ outputs' = outputs \o out
    /\ indices' = Append(indices, numSamples)
    /\ numSamples' = (numSamples + 1) % Word

\* void addSample(std::span<const float> in, std::span<const float> out)
AddSampleSpan(in, out) ==
    IF SizeMismatch(in, out)
    THEN /\ dsLast' = [op |-> "addSample", status |-> "invalid_argument", in |-> in, out |-> out]
         /\ UNCHANGED <<inputs, outputs, indices, numSamples, batchInputBuffer, batchOutputBuffer, added, held>>
    ELSE /\ numSamples < MaxSamples
         /\ AppendSample(in, out)
         /\ added' = Append(added, [in |-> in, out |-> out])
         /\ dsLast' = [op |-> "addSample", status |-> "ok", in |-> in, out |-> out]
         /\ UNCHANGED <<batchInputBuffer, batchOutputBuffer, held>>

\* template <size_t InSize, size_t OutSize> void addSample(const std::array&, const std::array&):
\* the static_asserts admit only well-sized arrays
AddSampleArray(in, out) ==
    /\ Len(in) = InputSize
    /\ Len(out) = OutputSize
    /\ numSamples < MaxSamples
    /\ AppendSample(in, out)
    /\ added' = Append(added, [in |-> in, out |-> out])
    /\ dsLast' = [op |-> "addSample", status |-> "ok", in |-> in, out |-> out]
    /\ UNCHANGED <<batchInputBuffer, batchOutputBuffer, held>>

---------------------------------------------------------------------------
(* Dataset::shuffle *)

\* the permutations of 1..n
Perms(n) == {p \in [1..n -> 1..n] : \A i, j \in 1..n : p[i] = p[j] => i = j}

\* s with positions i and j (1-based) exchanged
Swap(s, i, j) == [s EXCEPT ![i] = s[j], ![j] = s[i]]

\* std::minstd_rand0 (std::default_random_engine): seeding and one step
RngSeed(seed) == IF seed % 2147483647 = 0 THEN 1 ELSE seed % 2147483647
\* x * 16807 mod 2147483647, by Schrage's decomposition (no intermediate exceeds 31 bits)
RngNext(x) ==
    LET t == (16807 * (x % 127773)) - (2836 * (x \div 127773))
    IN IF t < 0 THEN t + 2147483647 ELSE t

\* std::shuffle(first, last, gen): a Fisher-Yates pass over positions 1..n-1 (0-based),
\* position i exchanged with a position drawn from 0..i
RECURSIVE ShuffleFrom(_, _, _)
ShuffleFrom(s, i, x) ==
    IF i >= Len(s) THEN s
    ELSE LET y == RngNext(x)
             j == y % (i + 1)
         IN ShuffleFrom(Swap(s, i + 1, j + 1), i + 1, y)

StdShuffle(s, seed) == ShuffleFrom(s, 1, RngSeed(seed))

\* void shuffle(): seeded by std::random_device, any permutation of the current order
Shuffle ==
    /\ \E p \in Perms(Len(indices)) : indices' = [i \in 1..Len(indices) |-> indices[p[i]]]
    /\ dsLast' = [op |-> "shuffle", status |-> "ok"]
    /\ UNCHANGED <<inputs, outputs, numSamples, batchInputBuffer, batchOutputBuffer, added, held>>

\* void shuffle(unsigned int seed)
ShuffleSeed(seed) ==
    /\ indices' = StdShuffle(indices, seed)
    /\ dsLast' = [op |-> "shuffleSeed", status |-> "ok", seed |-> seed]
    /\ UNCHANGED <<inputs, outputs, numSamples, batchInputBuffer, batchOutputBuffer, added, held>>

---------------------------------------------------------------------------
(* Dataset::numBatches *)

\* return (numSamples + batchSize - 1) / batchSize;   in size_t arithmetic
NumBatchesOf(n, batchSize) == ((n + batchSize - 1) % Word) \div batchSize

\* size_t numBatches(size_t batchSize) const
NumBatches(batchSize) ==
    /\ dsLast' = IF batchSize = 0
                 THEN [op |-> "numBatches", status |-> "invalid_argument", batchSize |-> batchSize]
                 ELSE [op |-> "numBatches", status |-> "ok", batchSize |-> batchSize,
                       ret |-> NumBatchesOf(numSamples, batchSize)]
    /\ UNCHANGED <<inputs, outputs, indices, numSamples, batchInputBuffer, batchOutputBuffer, added, held>>

---------------------------------------------------------------------------
(* Dataset::getBatch *)

\* mutant: batchIndex > numBatches(batchSize) instead of >=
GetBatchStatusOffByOne(batchIndex, batchSize) ==
    IF batchSize = 0 THEN "invalid_argument"
    ELSE IF batchIndex > NumBatchesOf(numSamples, batchSize) THEN "out_of_range"
    ELSE "ok"

\* the outcome of the two checks at the head of getBatch
GetBatchStatus(batchIndex, batchSize) ==
    IF batchSize = 0 THEN "invalid_argument"
    ELSE IF batchIndex >= NumBatchesOf(numSamples, batchSize) THEN "out_of_range"
    ELSE "ok"

StartSample(batchIndex, batchSize) == (batchIndex * batchSize) % Word
\* mutant: the batch ends where it starts
EndSampleAtStart(batchIndex, batchSize) == StartSample(batchIndex, batchSize)

\* size_t endSample = std::min(startSample + batchSize, numSamples);
EndSample(batchIndex, batchSize) == Min((StartSample(batchIndex, batchSize) + batchSize) % Word, numSamples)
ActualBatchSize(batchIndex, batchSize) ==
    (EndSample(batchIndex, batchSize) - StartSample(batchIndex, batchSize)) % Word

\* size_t sampleIdx = indices[startSample + i];
SampleIdx(startSample, i) == At(indices, startSample + i)

\* the gather loop: row i of the buffer receives row sampleIdx of the matrix; the buffer's
\* entries past the batch keep what they held
Gather(buffer, matrix, width, startSample, actual) ==
    [k \in 1..Len(buffer) |->
        IF k <= actual * width
        THEN At(matrix, (SampleIdx(startSample, (k - 1) \div width) * width) + ((k - 1) % width))
        ELSE buffer[k]]

\* mutant: the span covers the whole buffer
ViewLengthWholeBuffer(buffer, required) == Len(buffer)

\* the length of the span returned over a buffer
ViewLength(buffer, required) == required

\* the span returned over a buffer: its length, the size the vector had, the floats it showed
\* when it was returned; freed is FALSE while the span points into the vector's storage
SpanOver(buffer, len) == [len |-> len, size |-> Len(buffer), own |-> SubSeq(buffer, 1, len), freed |-> FALSE, shows |-> <<>>]

\* mutant: every call gathers into newly allocated storage
MovesAlways(buffer, required) == {TRUE}

\* whether buffer.resize(required) moves the vector's storage: never when the size suffices;
\* when the vector grows, it moves iff required exceeds the capacity, which std::vector only
\* promises to be at least the size
Moves(buffer, required) == IF Len(buffer) < required THEN BOOLEAN ELSE {FALSE}

\* what a span shows once the storage it points into was freed (reading it is undefined
\* behaviour): the floats that were there, or whatever took their place
Stale(buffer, len) == {SubSeq(buffer, 1, len), Zeros(len)}

\* a held span after the vector ran resize
SpanAfter(span, moved, stale) ==
    IF span.freed \/ ~moved THEN span ELSE [span EXCEPT !.freed = TRUE, !.shows = stale]

\* the held pair of spans after a getBatch call
HeldAfter(movedIn, movedOut, staleIn, staleOut) ==
    IF held.op = "none" THEN held
    ELSE [held EXCEPT !.fresh = FALSE,
                      !.in = SpanAfter(held.in, movedIn, staleIn),
                      !.out = SpanAfter(held.out, movedOut, staleOut)]

\* std::pair<std::span<const float>, std::span<const float>> getBatch(size_t batchIndex, size_t batchSize) const
GetBatch(batchIndex, batchSize) ==
    LET status == GetBatchStatus(batchIndex, batchSize) IN
    IF status # "ok"
    THEN /\ dsLast' = [op |-> "getBatch", status |-> status, batchIndex |-> batchIndex, batchSize |-> batchSize]
         /\ UNCHANGED <<inputs, outputs, indices, numSamples, batchInputBuffer, batchOutputBuffer, added, held>>
    ELSE LET startSample == StartSample(batchIndex, batchSize)
             actual == ActualBatchSize(batchIndex, batchSize)
             requiredInputSize == actual * InputSize
             requiredOutputSize == actual * OutputSize
             inBuf == Resize(batchInputBuffer, requiredInputSize)
             outBuf == Resize(batchOutputBuffer, requiredOutputSize)
         IN /\ batchInputBuffer' = Gather(inBuf, inputs, InputSize, startSample, actual)
            /\ batchOutputBuffer' = Gather(outBuf, outputs, OutputSize, startSample, actual)
            /\ dsLast' = [op |-> "getBatch", status |-> "ok", batchIndex |-> batchIndex, batchSize |-> batchSize,
                          inLen |-> ViewLength(inBuf, requiredInputSize),
                          outLen |-> ViewLength(outBuf, requiredOutputSize)]
            /\ \E movedIn \in Moves(batchInputBuffer, requiredInputSize),
                  movedOut \in Moves(batchOutputBuffer, requiredOutputSize) :
                  \E staleIn \in (IF held.op = "none" THEN {<<>>} ELSE Stale(batchInputBuffer, held.in.len)),
                     staleOut \in (IF held.op = "none" THEN {<<>>} ELSE Stale(batchOutputBuffer, held.out.len)) :
                     held' = HeldAfter(movedIn, movedOut, staleIn, staleOut)
            /\ UNCHANGED <<inputs, outputs, indices, numSamples, added>>

\* auto [batchInputs, batchLabels] = dataset.getBatch(...): the caller keeps the spans the last
\* getBatch call returned
HoldView ==
    /\ dsLast.op = "getBatch"
    /\ dsLast.status = "ok"
    /\ held' = [op |-> "view", fresh |-> TRUE,
                in |-> SpanOver(batchInputBuffer, dsLast.inLen),
                out |-> SpanOver(batchOutputBuffer, dsLast.outLen)]
    /\ UNCHANGED <<inputs, outputs, indices, numSamples, batchInputBuffer, batchOutputBuffer, dsLast, added>>

---------------------------------------------------------------------------
(* Activation functions (activation_functions.hpp) *)

\* Identity::compute, ReLU::compute (std::max(0.0f, x))
Activate(act, x) == IF act = "ReLU" THEN (IF FGreater(x, 0) THEN x ELSE 0) ELSE x

---------------------------------------------------------------------------
(* polann::layers::Dense<Activation, InputSize, OutputSize> *)

\* a Dense layer whose weights and biases have been set; the gradient arrays and the forward
\* caches lastInput and lastActivation are not initialised by the constructor (<<>> until
\* clearGradients, backward or forward fills them)
Dense(act, inSize, outSize, weights, biases) ==
    [act |-> act, inputSize |-> inSize, outputSize |-> outSize,
     weights |-> weights, biases |-> biases,
     gradWeights |-> <<>>, gradBiases |-> <<>>,
     lastInput |-> <<>>, lastActivation |-> <<>>]

\* the layers callers hand to ModelBuilder::addLayer (weights row-major, OutputSize x InputSize)
LayerChoices ==
    { Dense("Identity", 2, 2, Floats(<<1, 0, 0, 1>>), Floats(<<0, 0>>)),
      Dense("Identity", 2, 1, Floats(<<1, 1>>), Floats(<<0>>)),
      Dense("Identity", 1, 1, Floats(<<-1>>), Floats(<<1>>)),
      Dense("ReLU", 1, 2, Floats(<<1, -1>>), Floats(<<0, 1>>)),
      Dense("ReLU", 2, 2, Floats(<<1, -1, 0, 2>>), Floats(<<1, 0>>)),
      Dense("ReLU", 2, 1, Floats(<<-1, 2>>), Floats(<<0>>)) }

\* the values of the floats callers pass to predict, and of the floats found in memory
\* outside an array
Vals == {F(0), F(1)}

\* the widest input of a layer: how far past a buffer a read can reach
MaxInputSize == CHOOSE m \in {l.inputSize : l \in LayerChoices} : \A l \in LayerChoices : l.inputSize <= m

\* in[i] of a span over a std::array of Len(buf) floats: inside the array its element,
\* outside it (undefined behaviour) whatever the memory there holds; an array that was never
\* initialised has no element of its own (Len = 0)
ReadAt(buf, i, junk) == IF i < Len(buf) THEN At(buf, i) ELSE At(junk, i % Len(junk))

RECURSIVE Dot(_, _, _, _, _, _)
\* the inner loop of forward from i = n on: sum += in[i] * weights[o * InputSize + i]
Dot(layer, in, o, n, junk, acc) ==
    IF n >= layer.inputSize THEN acc
    ELSE Dot(layer, in, o, n + 1, junk,
             FAdd(acc, FMul(ReadAt(in, n, junk), At(layer.weights, (o * layer.inputSize) + n))))

\* the value forward stores in lastActivation[o] and out[o]
Neuron(layer, in, o, junk) == Activate(layer.act, Dot(layer, in, o, 0, junk, At(layer.biases, o)))

\* void forward(std::span<const float> in, std::span<float> out) const:
\* the layer with its caches overwritten
ForwardLayerState(layer, in, junk) ==
    [layer EXCEPT !.lastInput = [i \in 1..layer.inputSize |-> ReadAt(in, i - 1, junk)],
                  !.lastActivation = [o \in 1..layer.outputSize |-> Neuron(layer, in, o - 1, junk)]]

\* ... and the out span after it: out[o] = lastActivation[o], the rest of the buffer untouched
ForwardOut(layer, in, out, junk) ==
    [k \in 1..Len(out) |->
        IF k <= layer.outputSize THEN ForwardLayerState(layer, in, junk).lastActivation[k] ELSE out[k]]

\* Identity::derivative, ReLU::derivative
Derivative(act, y) == IF act = "ReLU" THEN (IF FGreater(y, 0) THEN F(1) ELSE F(0)) ELSE F(1)

\* float delta = gradOutput[o] * Activation::derivative(lastActivation[o]);
Delta(layer, gradOutput, o, junk) ==
    FMul(ReadAt(gradOutput, o, junk), Derivative(layer.act, ReadAt(layer.lastActivation, o, junk)))

\* void backward(std::span<const float> gradOutput, std::span<float> gradInput):
\* the layer with its gradient arrays accumulated:
\* gradBiases[o] += delta; gradWeights[o * InputSize + i] += delta * lastInput[i]
BackwardLayerState(layer, gradOutput, junk) ==
    [layer EXCEPT
        !.gradBiases = [o \in 1..layer.outputSize |->
            FAdd(ReadAt(layer.gradBiases, o - 1, junk), Delta(layer, gradOutput, o - 1, junk))],
        !.gradWeights = [k \in 1..(layer.inputSize * layer.outputSize) |->
            FAdd(ReadAt(layer.gradWeights, k - 1, junk),
                 FMul(Delta(layer, gradOutput, (k - 1) \div layer.inputSize, junk),
                      ReadAt(layer.lastInput, (k - 1) % layer.inputSize, junk)))]]

RECURSIVE GradInputSum(_, _, _, _, _)
\* gradInput[i] after the outputs 0 .. o - 1: 0.0f, then += delta * weights[o * InputSize + i]
GradInputSum(layer, gradOutput, i, o, junk) ==
    IF o = 0 THEN F(0)
    ELSE FAdd(GradInputSum(layer, gradOutput, i, o - 1, junk),
              FMul(Delta(layer, gradOutput, o - 1, junk), At(layer.weights, ((o - 1) * layer.inputSize) + i)))

\* mutant: gradInput is not zeroed first
BackwardInOnTop(layer, gradOutput, gradInput, junk) ==
    [k \in 1..Len(gradInput) |->
        IF k <= layer.inputSize
        THEN FAdd(gradInput[k], GradInputSum(layer, gradOutput, k - 1, layer.outputSize, junk))
        ELSE gradInput[k]]

\* ... and the gradInput span after it: the first InputSize entries zeroed and accumulated, the
\* rest untouched; entries past the end of the array are written outside it (undefined behaviour)
BackwardIn(layer, gradOutput, gradInput, junk) ==
    [k \in 1..Len(gradInput) |->
        IF k <= layer.inputSize THEN GradInputSum(layer, gradOutput, k - 1, layer.outputSize, junk)
        ELSE gradInput[k]]

\* void clearGradients()
ClearGradients(layer) ==
    [layer EXCEPT !.gradWeights = [k \in 1..(layer.inputSize * layer.outputSize) |-> F(0)],
                  !.gradBiases = [o \in 1..layer.outputSize |-> F(0)]]

\* mutant: the weights and the biases are scaled as well
ScaleEverything(layer, scale, junk) ==
    [layer EXCEPT !.gradWeights = [k \in 1..(layer.inputSize * layer.outputSize) |->
                      FMul(ReadAt(layer.gradWeights, k - 1, junk), scale)],
                  !.gradBiases = [o \in 1..layer.outputSize |->
                      FMul(ReadAt(layer.gradBiases, o - 1, junk), scale)],
                  !.weights = [k \in 1..Len(layer.weights) |-> FMul(layer.weights[k], scale)],
                  !.biases = [o \in 1..Len(layer.biases) |-> FMul(layer.biases[o], scale)]]

\* void scaleGradients(float scale)
ScaleGradients(layer, scale, junk) ==
    [layer EXCEPT !.gradWeights = [k \in 1..(layer.inputSize * layer.outputSize) |->
                      FMul(ReadAt(layer.gradWeights, k - 1, junk), scale)],
                  !.gradBiases = [o \in 1..layer.outputSize |->
                      FMul(ReadAt(layer.gradBiases, o - 1, junk), scale)]]

---------------------------------------------------------------------------
(* polann::optimizers::SGD *)

\* mutant: the gradient is added
StepEntryAscent(param, learningRate, grad) == FAdd(param, FMul(learningRate, grad))

\* layer.weights[i] -= learningRate * layer.gradWeights[i];
StepEntry(param, learningRate, grad) == FSub(param, FMul(learningRate, grad))

\* template <typename Layer> void step(Layer &layer): the layer after the two loops
SGDStep(layer, learningRate, junk) ==
    [layer EXCEPT !.weights = [k \in 1..Len(layer.weights) |->
                      StepEntry(layer.weights[k], learningRate, ReadAt(layer.gradWeights, k - 1, junk))],
                  !.biases = [o \in 1..Len(layer.biases) |->
                      StepEntry(layer.biases[o], learningRate, ReadAt(layer.gradBiases, o - 1, junk))]]

\* the number of Dense::backward calls made in a row so far
BackwardsDone == IF netLast.op = "denseBackward" THEN netLast.calls ELSE 0

\* layer.backward(gradOutput, gradInput) called on layer k of the network with spans the caller
\* owns
DenseBackward(k, gradOutput, gradInput, junk) ==
    /\ k \in 1..Len(layers)
    /\ BackwardsDone < MaxBackwards
    /\ layers' = [layers EXCEPT ![k] = BackwardLayerState(layers[k], gradOutput, junk)]
    /\ netLast' = [op |-> "denseBackward", layer |-> k, before |-> layers[k],
                   gradOutput |-> gradOutput, gradInputBefore |-> gradInput,
                   gradInput |-> BackwardIn(layers[k], gradOutput, gradInput, junk),
                   calls |-> BackwardsDone + 1]
    /\ UNCHANGED <<dsVars, built, netRef, fitVars, calls, lossVars, legacyVars>>

\* the number of step calls made in a row so far
StepsDone == IF netLast.op = "step" THEN netLast.calls ELSE 0

\* optimizer.step(layer) called on layer k of the network; junk is what uninitialised gradient
\* arrays hold
Step(k, junk) ==
    /\ k \in 1..Len(layers)
    /\ StepsDone < MaxSteps
    /\ layers' = [layers EXCEPT ![k] = SGDStep(layers[k], sgd.learningRate, junk)]
    /\ netLast' = [op |-> "step", layer |-> k, before |-> layers[k], calls |-> StepsDone + 1]
    /\ UNCHANGED <<dsVars, built, netRef, fitVars, calls, lossVars, legacyVars>>

---------------------------------------------------------------------------
(* polann::models::NN<Layers...> *)

Max(a, b) == IF a > b THEN a ELSE b

RECURSIVE MaxOutputSize(_)
\* constexpr size_t maxOutputSize = (std::max)({Layers::outputSize...});
MaxOutputSize(ls) ==
    IF Len(ls) = 1 THEN ls[1].outputSize
    ELSE Max(ls[1].outputSize, MaxOutputSize(Tail(ls)))

\* static constexpr size_t inputSize / outputSize
NetInputSize(ls) == ls[1].inputSize
NetOutputSize(ls) == ls[Len(ls)].outputSize

\* selectInputBuffer<useBuf1>, selectOutputBuffer<useBuf1>: which of the two buffers, 1 or 2
SelectInputBuffer(useBuf1) == IF useBuf1 THEN 1 ELSE 2
\* mutant: the output buffer is chosen like the input buffer
SelectOutputBufferLikeInput(useBuf1) == IF useBuf1 THEN 1 ELSE 2
SelectOutputBuffer(useBuf1) == IF useBuf1 THEN 2 ELSE 1

\* forwardLayer<LayerIndex>: the buffer the layer reads (inBuf) and the one it writes (outBuf)
ForwardBuffers(layerIndex) ==
    [reads |-> SelectInputBuffer(layerIndex % 2 = 0), writes |-> SelectOutputBuffer(layerIndex % 2 = 0)]

\* backwardLayer<LayerIndex> with reverseIndex = layerCount - 1 - LayerIndex: the buffer the layer
\* reads (gradOut) and the one it writes (gradIn)
BackwardBuffers(reverseIndex) ==
    [reads |-> SelectInputBuffer(reverseIndex % 2 = 0), writes |-> SelectOutputBuffer(reverseIndex % 2 = 0)]

\* predictImpl of layerCount layers: the buffer the result is copied from
ResultBuffer(layerCount) == SelectOutputBuffer((layerCount - 1) % 2 = 0)

\* forwardLayer<LayerIndex>: bufs is <<buf1, buf2>>; the layer reads one and writes the other
ForwardLayer(ls, bufs, layerIndex, junk) ==
    LET layer == At(ls, layerIndex)
        inBuf == ForwardBuffers(layerIndex).reads
        outBuf == ForwardBuffers(layerIndex).writes
    IN [layers |-> [ls EXCEPT ![layerIndex + 1] = ForwardLayerState(layer, bufs[inBuf], junk)],
        bufs |-> [bufs EXCEPT ![outBuf] = ForwardOut(layer, bufs[inBuf], bufs[outBuf], junk)]]

RECURSIVE ForwardFold(_, _, _, _)
\* ((forwardLayer<I>(buf1, buf2)), ...): the layers from layerIndex on, in order
ForwardFold(ls, bufs, layerIndex, junk) ==
    IF layerIndex >= Len(ls) THEN [layers |-> ls, bufs |-> bufs]
    ELSE With(ForwardLayer(ls, bufs, layerIndex, junk),
              LAMBDA step : ForwardFold(step.layers, step.bufs, layerIndex + 1, junk))

\* predictImpl: the fold, then the result copied out of the buffer the last layer wrote
PredictImpl(ls, bufs, junk) ==
    With(ForwardFold(ls, bufs, 0, junk),
         LAMBDA done :
            LET outputBuffer == done.bufs[ResultBuffer(Len(ls))]
            IN [layers |-> done.layers, result |-> SubSeq(outputBuffer, 1, NetOutputSize(ls))])

\* std::copy(input.begin(), input.end(), buf1.begin()) into a zeroed buffer of maxLayerOutputSize
\* floats; the floats that do not fit are written past the array (undefined behaviour)
CopyInput(input, size) == [k \in 1..size |-> IF k <= Len(input) THEN input[k] ELSE 0]

\* backwardLayer<LayerIndex>, LayerIndex = layerCount - 1 - reverseIndex: the layer reads gradOut
\* from one buffer and writes gradIn to the other
BackwardLayer(ls, bufs, reverseIndex, junk) ==
    LET layerIndex == Len(ls) - 1 - reverseIndex
        layer == At(ls, layerIndex)
        gradOut == BackwardBuffers(reverseIndex).reads
        gradIn == BackwardBuffers(reverseIndex).writes
    IN [layers |-> [ls EXCEPT ![layerIndex + 1] = BackwardLayerState(layer, bufs[gradOut], junk)],
        bufs |-> [bufs EXCEPT ![gradIn] = BackwardIn(layer, bufs[gradOut], bufs[gradIn], junk)]]

RECURSIVE BackwardFold(_, _, _, _)
\* ((backwardLayer<sizeof...(Layers) - 1 - I>(buf1, buf2)), ...): from I = reverseIndex on
BackwardFold(ls, bufs, reverseIndex, junk) ==
    IF reverseIndex >= Len(ls) THEN [layers |-> ls, bufs |-> bufs]
    ELSE With(BackwardLayer(ls, bufs, reverseIndex, junk),
              LAMBDA step : BackwardFold(step.layers, step.bufs, reverseIndex + 1, junk))

\* void backward(const std::array<float, OutputSize> &dLoss): the layers after the call
Backward(ls, dLoss, junk) ==
    LET size == MaxOutputSize(ls)
    IN BackwardFold(ls, <<CopyInput(dLoss, size), Zeros(size)>>, 0, junk).layers

\* the (buffer, index) pairs predict touches: std::copy of the input into buf1, and per layer
\* Dense::forward's reads of in[0 .. InputSize) and writes of out[0 .. OutputSize), and the copy
\* of the result out of the last buffer
PredictAccesses(ls) ==
    {<<1, i>> : i \in 0..(NetInputSize(ls) - 1)}
    \cup UNION {{<<ForwardBuffers(k - 1).reads, i>> : i \in 0..(ls[k].inputSize - 1)} : k \in 1..Len(ls)}
    \cup UNION {{<<ForwardBuffers(k - 1).writes, o>> : o \in 0..(ls[k].outputSize - 1)} : k \in 1..Len(ls)}
    \cup {<<ResultBuffer(Len(ls)), o>> : o \in 0..(NetOutputSize(ls) - 1)}

\* the (buffer, index) pairs backward touches: std::copy of dLoss into buf1, and per layer
\* Dense::backward's reads of gradOutput[0 .. OutputSize) and its zeroing and writes of
\* gradInput[0 .. InputSize)
BackwardAccesses(ls) ==
    {<<1, o>> : o \in 0..(NetOutputSize(ls) - 1)}
    \cup UNION {{<<BackwardBuffers(Len(ls) - k).reads, o>> : o \in 0..(ls[k].outputSize - 1)} : k \in 1..Len(ls)}
    \cup UNION {{<<BackwardBuffers(Len(ls) - k).writes, i>> : i \in 0..(ls[k].inputSize - 1)} : k \in 1..Len(ls)}

\* what backward(dLoss) adds to the gradient arrays of the layers: the arrays it leaves when it
\* starts from zeroed ones
OwnGradient(ls, dLoss, junk) ==
    With(Backward([k \in 1..Len(ls) |->
                      [ls[k] EXCEPT !.gradWeights = [i \in 1..Len(ls[k].weights) |-> F(0)],
                                    !.gradBiases = [o \in 1..Len(ls[k].biases) |-> F(0)]]],
                  dLoss, junk),
         LAMBDA after : [k \in 1..Len(after) |-> <<after[k].gradWeights, after[k].gradBiases>>])

\* std::array<float, outputSize> predict(const std::array<float, InputSize> &input) const
Predict(input, junk, keep) ==
    /\ built
    /\ Len(input) = NetInputSize(layers)
    /\ \E ret \in {PredictImpl(layers, <<CopyInput(input, MaxOutputSize(layers)),
                                           Zeros(MaxOutputSize(layers))>>, junk)} :
          /\ layers' = ret.layers
          /\ netLast' = [op |-> "predict", in |-> input, out |-> ret.result]
    /\ netRef' = IF keep THEN netRef ELSE netLast
    /\ UNCHANGED built

---------------------------------------------------------------------------
(* NN::predict called from several threads on one network: each call has its own buf1 / buf2,
   the layers' mutable lastInput / lastActivation arrays are shared and written without
   synchronisation *)

Threads == 1..MaxThreads

\* a thread that is not in a call
NoCall ==
    [pc |-> "idle", input |-> <<>>, bufs |-> <<>>, layerIndex |-> 0, o |-> 0, stored |-> F(0),
     out |-> <<>>, alone |-> <<>>, overlapped |-> FALSE]

\* the thread is inside predict
Running(call) == call.pc \notin {"idle", "returned"}

\* mutant: the store does not reach the array
StoreNowhere(cache, o, value) == cache

\* lastActivation[o] = value
StoreAt(cache, o, value) == [cache EXCEPT ![o + 1] = value]

\* out[o] = lastActivation[o], straight after the thread's own store to lastActivation[o]: the
\* compiler may forward the stored value, or load what the array holds now (a data race when
\* another thread writes the entry in between)
Loads(stored, memory) == {stored, memory}

\* thread t calls predict(input): the input copied into its buf1; alone is what the call returns
\* when no other call runs, overlapped whether another call runs during this one
CallPredict(t, input) ==
    /\ built
    /\ calls[t].pc = "idle"
    /\ Len(input) = NetInputSize(layers)
    /\ LET size == MaxOutputSize(layers)
           bufs == <<CopyInput(input, size), Zeros(size)>>
           others == {u \in Threads \ {t} : Running(calls[u])}
       IN calls' = [u \in Threads |->
                     IF u = t
                     THEN [NoCall EXCEPT !.pc = "storeInput", !.input = input, !.bufs = bufs,
                                         !.alone = PredictImpl(layers, bufs, bufs[1]).result,
                                         !.overlapped = others # {}]
                     ELSE IF u \in others THEN [calls[u] EXCEPT !.overlapped = TRUE]
                     ELSE calls[u]]
    /\ UNCHANGED <<dsVars, netVars, fitVars, lossVars, legacyVars>>

\* Dense::forward in thread t: std::copy_n(in.begin(), InputSize, lastInput.begin());
StoreInput(t) ==
    /\ calls[t].pc = "storeInput"
    /\ LET call == calls[t]
           layer == At(layers, call.layerIndex)
           in == call.bufs[SelectInputBuffer(call.layerIndex % 2 = 0)]
       IN /\ layers' = [layers EXCEPT ![call.layerIndex + 1].lastInput =
                            [i \in 1..layer.inputSize |-> ReadAt(in, i - 1, in)]]
          /\ calls' = [calls EXCEPT ![t].pc = "store", ![t].o = 0]
    /\ UNCHANGED <<dsVars, built, netLast, netRef, fitVars, lossVars, legacyVars>>

\* ... lastActivation[o] = Activation::compute(sum);
StoreActivation(t) ==
    /\ calls[t].pc = "store"
    /\ LET call == calls[t]
           layer == At(layers, call.layerIndex)
           in == call.bufs[SelectInputBuffer(call.layerIndex % 2 = 0)]
       IN \E value \in {Neuron(layer, in, call.o, in)} :
             /\ layers' = [layers EXCEPT ![call.layerIndex + 1].lastActivation =
                               StoreAt(layer.lastActivation, call.o, value)]
             /\ calls' = [calls EXCEPT ![t].pc = "load", ![t].stored = value]
    /\ UNCHANGED <<dsVars, built, netLast, netRef, fitVars, lossVars, legacyVars>>

\* ... out[o] = lastActivation[o]; then the next output, the next layer, or the return of predict
\* with the result copied out of the buffer the last layer wrote
LoadActivation(t) ==
    /\ calls[t].pc = "load"
    /\ LET call == calls[t]
           layer == At(layers, call.layerIndex)
           outBuf == SelectOutputBuffer(call.layerIndex % 2 = 0)
       IN \E value \in Loads(call.stored, At(layer.lastActivation, call.o)) :
             \E bufs \in {[call.bufs EXCEPT ![outBuf][call.o + 1] = value]} :
                calls' = [calls EXCEPT ![t] =
                    IF call.o + 1 < layer.outputSize
                    THEN [call EXCEPT !.bufs = bufs, !.o = call.o + 1, !.pc = "store"]
                    ELSE IF call.layerIndex + 1 < Len(layers)
                    THEN [call EXCEPT !.bufs = bufs, !.layerIndex = call.layerIndex + 1,
                                      !.pc = "storeInput"]
                    ELSE [call EXCEPT !.bufs = bufs, !.pc = "returned",
                                      !.out = SubSeq(bufs[outBuf], 1, NetOutputSize(layers))]]
    /\ UNCHANGED <<dsVars, netVars, fitVars, lossVars, legacyVars>>

---------------------------------------------------------------------------
(* polann::core::ModelBuilder<Layers...> *)

\* auto addLayer(Args &&...args): the builder extended by one layer
AddLayer(layer) ==
    /\ ~built
    /\ Len(layers) < MaxLayers
    /\ layers' = Append(layers, layer)
    /\ UNCHANGED <<built, netLast, netRef>>

\* auto build(): NN<Layers...>(ls...); the static_assert of NN asks for at least one layer
Build ==
    /\ ~built
    /\ Len(layers) > 0
    /\ built' = TRUE
    /\ UNCHANGED <<layers, netLast, netRef>>

---------------------------------------------------------------------------
(* polann::loss::MSE (loss/mse.hpp) *)

\* the builds of MSE: without POLANN_ENABLE_AVX2 ("scalar"), with it and the n > 8 guard
\* ("avx2_guarded"), with it and no guard ("avx2")
Builds == {"scalar", "avx2_guarded", "avx2"}

\* the width of a __m256 in floats
Lanes == 8

\* whether the build runs the 8-wide loop on spans of n floats
RunsBlocks(build, n) == build = "avx2" \/ (build = "avx2_guarded" /\ n > Lanes)

\* _mm256_loadu_ps(data + i): the floats i .. i + 7
Load(v, i, junk) == [l \in 1..Lanes |-> ReadAt(v, i + (l - 1), junk)]

RECURSIVE ComputeBlocks(_, _, _, _, _)
\* for (; i + 8 <= n; i += 8) vsum = fmadd(va - vb, va - vb, vsum): the loop from i on;
\* seen lists the indices it has read
ComputeBlocks(yPredict, yTrue, i, vsum, seen) ==
    IF i + Lanes <= Len(yPredict)
    THEN LET va == Load(yPredict, i, <<>>)
             vb == Load(yTrue, i, <<>>)
             vdiff == [l \in 1..Lanes |-> FSub(va[l], vb[l])]
         IN ComputeBlocks(yPredict, yTrue, i + Lanes,
                          [l \in 1..Lanes |-> FAdd(FMul(vdiff[l], vdiff[l]), vsum[l])],
                          seen \o [l \in 1..Lanes |-> i + (l - 1)])
    ELSE [i |-> i, vsum |-> vsum, seen |-> seen]

\* mutant: the upper half of the vector is dropped
HorizontalSumLowOnly(vsum) == FAdd(FAdd(vsum[1], vsum[2]), FAdd(vsum[3], vsum[4]))

\* low + high, then two _mm_hadd_ps, then lane 0
HorizontalSum(vsum) ==
    LET sum128 == [l \in 1..4 |-> FAdd(vsum[l], vsum[l + 4])]
    IN FAdd(FAdd(sum128[1], sum128[2]), FAdd(sum128[3], sum128[4]))

RECURSIVE ComputeRemainder(_, _, _, _, _)
\* for (; i < n; ++i) { diff = yPredict[i] - yTrue[i]; sum += diff * diff; }
ComputeRemainder(yPredict, yTrue, i, sum, seen) ==
    IF i < Len(yPredict)
    THEN LET diff == FSub(At(yPredict, i), At(yTrue, i))
         IN ComputeRemainder(yPredict, yTrue, i + 1, FAdd(sum, FMul(diff, diff)), Append(seen, i))
    ELSE [sum |-> sum, seen |-> seen]

\* the body of compute after the size check: the sum, the indices read, the returned mean
ComputeBody(build, yPredict, yTrue) ==
    LET n == Len(yPredict)
        blocks == IF RunsBlocks(build, n)
                  THEN ComputeBlocks(yPredict, yTrue, 0, [l \in 1..Lanes |-> F(0)], <<>>)
                  ELSE [i |-> 0, vsum |-> [l \in 1..Lanes |-> F(0)], seen |-> <<>>]
        sum0 == IF RunsBlocks(build, n) THEN HorizontalSum(blocks.vsum) ELSE F(0)
        rest == ComputeRemainder(yPredict, yTrue, blocks.i, sum0, blocks.seen)
    IN [ret |-> FDiv(rest.sum, FromSize(n)), seen |-> rest.seen]

\* static float compute(const std::span<const float> &yPredict, const std::span<const float> &yTrue)
MSECompute(build, yPredict, yTrue) ==
    /\ UNCHANGED lossArgs
    /\ lossLast' =
          IF Len(yPredict) # Len(yTrue)
          THEN [op |-> "compute", status |-> "runtime_error", build |-> build,
                yPredict |-> yPredict, yTrue |-> yTrue]
          ELSE LET body == ComputeBody(build, yPredict, yTrue)
               IN [op |-> "compute", status |-> "ok", build |-> build,
                   yPredict |-> yPredict, yTrue |-> yTrue, ret |-> body.ret, seen |-> body.seen]

\* mutant: the size check of gradient compares gradOut with yTrue
GradientSizeMismatchOnTrue(yPredict, yTrue, gradOut) == Len(gradOut) # Len(yTrue)

\* the size check of gradient
GradientSizeMismatch(yPredict, yTrue, gradOut) == Len(gradOut) # Len(yPredict)

\* _mm256_storeu_ps(gradOut.data() + i, v) / gradOut[i] = x: the span after the store
Store(gradOut, i, v) == [k \in 1..Len(gradOut) |-> IF k - 1 >= i /\ k - 1 < i + Len(v) THEN v[k - i] ELSE gradOut[k]]

RECURSIVE GradientBlocks(_, _, _, _, _, _, _)
\* for (; i + 8 <= n; i += 8) store(gradOut + i, (vPred - vTrue) * vInvN): the loop from i on;
\* written lists the indices it has stored to
GradientBlocks(yPredict, yTrue, gradOut, invN, i, written, junk) ==
    IF i + Lanes <= Len(yPredict)
    THEN LET vPred == Load(yPredict, i, junk)
             vTrue == Load(yTrue, i, junk)
             vGrad == [l \in 1..Lanes |-> FMul(FSub(vPred[l], vTrue[l]), invN)]
         IN GradientBlocks(yPredict, yTrue, Store(gradOut, i, vGrad), invN, i + Lanes,
                           written \o [l \in 1..Lanes |-> i + (l - 1)], junk)
    ELSE [i |-> i, gradOut |-> gradOut, written |-> written]

RECURSIVE GradientRemainder(_, _, _, _, _, _, _)
\* for (; i < n; ++i) gradOut[i] = invN * (yPredict[i] - yTrue[i]);
GradientRemainder(yPredict, yTrue, gradOut, invN, i, written, junk) ==
    IF i < Len(yPredict)
    THEN GradientRemainder(yPredict, yTrue,
                           Store(gradOut, i, <<FMul(invN, FSub(At(yPredict, i), ReadAt(yTrue, i, junk)))>>),
                           invN, i + 1, Append(written, i), junk)
    ELSE [gradOut |-> gradOut, written |-> written]

\* the body of gradient after the size check: the span after the call, the indices written
GradientBody(build, yPredict, yTrue, gradOut, junk) ==
    LET n == Len(yPredict)
        invN == FDiv(F(2), FromSize(n))
        blocks == IF RunsBlocks(build, n)
                  THEN GradientBlocks(yPredict, yTrue, gradOut, invN, 0, <<>>, junk)
                  ELSE [i |-> 0, gradOut |-> gradOut, written |-> <<>>]
    IN GradientRemainder(yPredict, yTrue, blocks.gradOut, invN, blocks.i, blocks.written, junk)

\* static void gradient(const std::span<const float> &yPredict, const std::span<const float> &yTrue,
\*                      std::span<float> gradOut);  yTrue's length is not checked, and reading it
\* past its end (undefined behaviour) gives whatever the memory there holds
MSEGradient(build, yPredict, yTrue, gradOut, junk) ==
    /\ UNCHANGED lossArgs
    /\ lossLast' =
          IF GradientSizeMismatch(yPredict, yTrue, gradOut)
          THEN [op |-> "gradient", status |-> "runtime_error", build |-> build,
                yPredict |-> yPredict, yTrue |-> yTrue, before |-> gradOut, gradOut |-> gradOut]
          ELSE LET body == GradientBody(build, yPredict, yTrue, gradOut, junk)
               IN [op |-> "gradient", status |-> "ok", build |-> build,
                   yPredict |-> yPredict, yTrue |-> yTrue, before |-> gradOut,
                   gradOut |-> body.gradOut, written |-> body.written]

---------------------------------------------------------------------------
(* NN::fit *)

\* the build of MSE that fit is compiled against (the one whose gradient function is named
\* gradient); for spans shorter than 8 floats all builds run the scalar loop only
FitBuild == "avx2_guarded"

\* an int argument converted to size_t
ToSize(k) == k % Word

\* the locals of fit before the first epoch, and the counts kept about the call:
\* epochsRun epoch iterations so far; in the current epoch batchesRun batch iterations,
\* predicts / computes / gradients / backwards calls of predict / LossFunction::compute /
\* LossFunction::gradient / backward, and rows, the (input, target) pairs they were made on;
\* trace, the calls made so far in the current batch iteration; own, what each backward of
\* the current batch iteration adds to the gradient arrays
FitLocals ==
    [pc |-> "idle", epochs |-> 0, batchSize |-> 0, shuffle |-> FALSE, junk |-> <<>>,
     epoch |-> 0, epochLoss |-> F(0), numBatches |-> 0, totalSamples |-> 0, batch |-> 0,
     currentBatchSize |-> 0, batchLoss |-> F(0), sample |-> 0,
     input |-> <<>>, target |-> <<>>, prediction |-> <<>>, dLoss |-> <<>>,
     epochsRun |-> 0, batchesRun |-> 0, predicts |-> 0, computes |-> 0, gradients |-> 0, backwards |-> 0,
     rows |-> <<>>, trace |-> <<>>, own |-> <<>>]

\* mutant: the fold visits the layers from the last to the first
LayerOrderReversed(n) == [k \in 1..n |-> n + 1 - k]

\* std::apply([](auto &...layer) { ((f(layer)), ...); }, layers): the order in which the fold
\* expression visits the n layers
LayerOrder(n) == [k \in 1..n |-> k]

\* the calls made when op is applied to every layer, and a call made on sample k of the batch
OnLayers(op, n) == [k \in 1..n |-> [op |-> op, on |-> LayerOrder(n)[k]]]
OnSample(op, k) == [op |-> op, on |-> k]

\* mutant: the loop runs while epoch <= epochs
EpochLoopOneMore(f, e) ==
    IF e <= ToSize(f.epochs)
    THEN [f EXCEPT !.epoch = e, !.pc = IF f.shuffle THEN "shuffle" ELSE "numBatches",
                   !.epochsRun = f.epochsRun + 1, !.batchesRun = 0,
                   !.predicts = 0, !.computes = 0, !.gradients = 0, !.backwards = 0, !.rows = <<>>]
    ELSE [f EXCEPT !.epoch = e, !.pc = "returned"]

\* for (size_t epoch = 0; epoch < epochs; epoch++): where the loop goes with the counter at e
EpochLoop(f, e) ==
    IF e < ToSize(f.epochs)
    THEN [f EXCEPT !.epoch = e, !.pc = IF f.shuffle THEN "shuffle" ELSE "numBatches",
                   !.epochLoss = F(0), !.totalSamples = 0,
                   !.epochsRun = f.epochsRun + 1, !.batchesRun = 0,
                   !.predicts = 0, !.computes = 0, !.gradients = 0, !.backwards = 0, !.rows = <<>>]
    ELSE [f EXCEPT !.epoch = e, !.pc = "returned"]

\* for (size_t batch = 0; batch < numBatches; batch++): where the loop goes with the counter at b
BatchLoop(f, b) ==
    [f EXCEPT !.batch = b, !.pc = IF b < f.numBatches THEN "getBatch" ELSE "epochEnd"]

\* mutant: the last sample of each batch is left out
SampleLoopSkipsLast(f, k) ==
    [f EXCEPT !.sample = k, !.pc = IF k + 1 < f.currentBatchSize THEN "predict" ELSE "scale"]

\* for (size_t sample = 0; sample < currentBatchSize; sample++): likewise
SampleLoop(f, k) ==
    [f EXCEPT !.sample = k, !.pc = IF k < f.currentBatchSize THEN "predict" ELSE "scale"]

\* mutant: the requested batch size is the divisor
BatchScaleRequested(f) == FDiv(F(1), FromSize(ToSize(f.batchSize)))

\* float scale = 1.0f / currentBatchSize;
BatchScale(f) == FDiv(F(1), FromSize(f.currentBatchSize))

\* void fit(Dataset &dataset, Optimizer &optimizer, int epochs, int batchSize, bool shuffle, bool verbose):
\* the call, on a Dataset whose widths are the network's; junk is what the memory next to the
\* scratch arrays holds during the call
FitCall(epochs, batchSize, shuffle, junk) ==
    /\ built
    /\ fit.pc = "idle"
    /\ NetInputSize(layers) = InputSize
    /\ NetOutputSize(layers) = OutputSize
    /\ fit' = EpochLoop([FitLocals EXCEPT !.epochs = epochs, !.batchSize = batchSize,
                                           !.shuffle = shuffle, !.junk = junk], 0)
    /\ UNCHANGED <<dsVars, netVars, sgd, lossVars, legacyVars, calls>>

\* if (shuffle) dataset.shuffle();
FitShuffle ==
    /\ fit.pc = "shuffle"
    /\ Shuffle
    /\ fit' = [fit EXCEPT !.pc = "numBatches"]
    /\ UNCHANGED <<netVars, sgd, lossVars, legacyVars, calls>>

\* size_t numBatches = dataset.numBatches(batchSize); an exception leaves fit
FitNumBatches ==
    /\ fit.pc = "numBatches"
    /\ NumBatches(ToSize(fit.batchSize))
    /\ fit' = IF dsLast'.status = "ok"
              THEN BatchLoop([fit EXCEPT !.numBatches = dsLast'.ret], 0)
              ELSE [fit EXCEPT !.pc = "threw"]
    /\ UNCHANGED <<netVars, sgd, lossVars, legacyVars, calls>>

\* auto [batchInputs, batchLabels] = dataset.getBatch(batch, batchSize);
\* size_t currentBatchSize = batchInputs.size() / inputSize; if (currentBatchSize == 0) continue;
FitGetBatch ==
    /\ fit.pc = "getBatch"
    /\ GetBatch(fit.batch, ToSize(fit.batchSize))
    /\ fit' = IF dsLast'.status # "ok" THEN [fit EXCEPT !.pc = "threw"]
              ELSE LET f == [fit EXCEPT !.currentBatchSize = dsLast'.inLen \div NetInputSize(layers),
                                        !.batchesRun = fit.batchesRun + 1, !.trace = <<>>,
                                        !.own = <<>>]
                   IN IF f.currentBatchSize = 0 THEN BatchLoop(f, fit.batch + 1)
                      ELSE [f EXCEPT !.pc = "clear"]
    /\ UNCHANGED <<netVars, sgd, lossVars, legacyVars, calls>>

\* std::apply([](auto &...layer) { ((layer.clearGradients()), ...); }, layers); float batchLoss = 0.0f;
FitClear ==
    /\ fit.pc = "clear"
    /\ layers' = [k \in 1..Len(layers) |-> ClearGradients(layers[k])]
    /\ fit' = SampleLoop([fit EXCEPT !.batchLoss = F(0),
                                     !.trace = fit.trace \o OnLayers("clearGradients", Len(layers))], 0)
    /\ UNCHANGED <<dsVars, built, netLast, netRef, sgd, lossVars, legacyVars, calls>>

\* std::copy_n(batchInputs.data() + sample * inputSize, inputSize, input.begin()), likewise the
\* target; auto prediction = predict(input);
FitPredict ==
    /\ fit.pc = "predict"
    /\ LET input == [j \in 1..NetInputSize(layers) |->
                        ReadAt(batchInputBuffer, (fit.sample * NetInputSize(layers)) + (j - 1), fit.junk)]
           target == [j \in 1..NetOutputSize(layers) |->
                        ReadAt(batchOutputBuffer, (fit.sample * NetOutputSize(layers)) + (j - 1), fit.junk)]
       IN /\ Predict(input, fit.junk, TRUE)
          /\ fit' = [fit EXCEPT !.input = input, !.target = target, !.prediction = netLast'.out,
                                !.predicts = fit.predicts + 1,
                                !.trace = Append(fit.trace, OnSample("predict", fit.sample)),
                                !.rows = Append(fit.rows, [in |-> input, out |-> target]),
                                !.pc = "compute"]
    /\ UNCHANGED <<dsVars, sgd, lossVars, legacyVars, calls>>

\* batchLoss += LossFunction::compute(predSpan, targetSpan);
FitCompute ==
    /\ fit.pc = "compute"
    /\ MSECompute(FitBuild, fit.prediction, fit.target)
    /\ fit' = IF lossLast'.status # "ok" THEN [fit EXCEPT !.pc = "threw"]
              ELSE [fit EXCEPT !.batchLoss = FAdd(fit.batchLoss, lossLast'.ret),
                               !.computes = fit.computes + 1,
                               !.trace = Append(fit.trace, OnSample("compute", fit.sample)),
                               !.pc = "gradient"]
    /\ UNCHANGED <<dsVars, netVars, sgd, calls, legacyVars>>

\* std::array<float, outputSize> dLoss{}; LossFunction::gradient(predSpan, targetSpan, std::span(dLoss));
FitGradient ==
    /\ fit.pc = "gradient"
    /\ MSEGradient(FitBuild, fit.prediction, fit.target, Zeros(NetOutputSize(layers)), fit.junk)
    /\ fit' = IF lossLast'.status # "ok" THEN [fit EXCEPT !.pc = "threw"]
              ELSE [fit EXCEPT !.dLoss = lossLast'.gradOut, !.gradients = fit.gradients + 1,
                               !.trace = Append(fit.trace, OnSample("gradient", fit.sample)),
                               !.pc = "backward"]
    /\ UNCHANGED <<dsVars, netVars, sgd, calls, legacyVars>>

\* backward(dLoss);
FitBackward ==
    /\ fit.pc = "backward"
    /\ layers' = Backward(layers, fit.dLoss, fit.junk)
    /\ fit' = SampleLoop([fit EXCEPT !.backwards = fit.backwards + 1,
                                     !.own = Append(fit.own, OwnGradient(layers, fit.dLoss, fit.junk)),
                                     !.trace = Append(fit.trace, OnSample("backward", fit.sample))],
                         fit.sample + 1)
    /\ UNCHANGED <<dsVars, built, netLast, netRef, sgd, lossVars, legacyVars, calls>>

\* float scale = 1.0f / currentBatchSize; ((layer.scaleGradients(scale)), ...);
FitScale ==
    /\ fit.pc = "scale"
    /\ \E scale \in {BatchScale(fit)} :
          layers' = [k \in 1..Len(layers) |-> ScaleGradients(layers[k], scale, fit.junk)]
    /\ fit' = [fit EXCEPT !.pc = "step",
                          !.trace = fit.trace \o OnLayers("scaleGradients", Len(layers))]
    /\ UNCHANGED <<dsVars, built, netLast, netRef, sgd, lossVars, legacyVars, calls>>

\* ((optimizer.step(layer)), ...); epochLoss += batchLoss; totalSamples += currentBatchSize;
FitStep ==
    /\ fit.pc = "step"
    /\ layers' = [k \in 1..Len(layers) |-> SGDStep(layers[k], sgd.learningRate, fit.junk)]
    /\ fit' = BatchLoop([fit EXCEPT !.trace = fit.trace \o OnLayers("step", Len(layers)),
                                    !.epochLoss = FAdd(fit.epochLoss, fit.batchLoss),
                                    !.totalSamples = (fit.totalSamples + fit.currentBatchSize) % Word],
                        fit.batch + 1)
    /\ UNCHANGED <<dsVars, built, netLast, netRef, sgd, lossVars, legacyVars, calls>>

\* if (totalSamples > 0) epochLoss /= totalSamples; (the progress line;) epoch++
FitEpochEnd ==
    /\ fit.pc = "epochEnd"
    /\ fit' = EpochLoop([fit EXCEPT !.epochLoss = IF fit.totalSamples > 0
                                                  THEN FDiv(fit.epochLoss, FromSize(fit.totalSamples))
                                                  ELSE fit.epochLoss],
                        (fit.epoch + 1) % Word)
    /\ UNCHANGED <<dsVars, netVars, sgd, lossVars, legacyVars, calls>>

\* the steps of a running fit call
FitRun ==
    \/ FitShuffle
    \/ FitNumBatches
    \/ FitGetBatch
    \/ FitClear
    \/ FitPredict
    \/ FitCompute
    \/ FitGradient
    \/ FitBackward
    \/ FitScale
    \/ FitStep
    \/ FitEpochEnd

---------------------------------------------------------------------------
(* models::ANN, the flat network (ann.hpp); polann::models::NN of nn.cpp has the same addLayer *)

\* ANN(): every vector empty; draws counts the floats taken from dist_(rng_) so far
EmptyANN ==
    [layers_ |-> <<>>, layerWeightOffsets_ |-> <<>>, biases_ |-> <<>>, activations_ |-> <<>>,
     weights_ |-> <<>>, draws |-> 0]

\* the five containers of the object
Containers(a) ==
    [layers_ |-> a.layers_, layerWeightOffsets_ |-> a.layerWeightOffsets_, biases_ |-> a.biases_,
     activations_ |-> a.activations_, weights_ |-> a.weights_]

\* dist_(rng_): the float produced by draw number k of the generator (rng_ is seeded from
\* std::random_device, so the float is only known as the k-th output)
Drawn(k) == [draw |-> k]

\* layers_.at(layers_.size() - 2).neuronCount, with the new layer already in layers_: the
\* neuron count of the layer before it
PrevNeuronCount(ls) == ls[Len(ls) - 1].neuronCount

RECURSIVE InitNeurons(_, _, _, _)
\* the loop for (int n = 0; n < neuronCount; n++) from n on: one bias and one activation pushed
\* per neuron, then one weight per neuron of the previous layer; the loop ends at the first
\* at() that throws (no layer before the new one: the index is SIZE_MAX, std::out_of_range),
\* with what it pushed up to there
InitNeurons(a, activationFunction, neuronCount, n) ==
    IF n >= neuronCount THEN [ann |-> a, status |-> "ok"]
    ELSE LET pushed == [a EXCEPT !.biases_ = Append(a.biases_, Drawn(a.draws)),
                                 !.activations_ = Append(a.activations_, activationFunction),
                                 !.draws = a.draws + 1]
         IN IF Len(a.layers_) < 2 THEN [ann |-> pushed, status |-> "out_of_range"]
            ELSE LET prev == PrevNeuronCount(a.layers_) IN
                 InitNeurons([pushed EXCEPT
                                 !.weights_ = pushed.weights_ \o
                                              [p \in 1..prev |-> Drawn(pushed.draws + (p - 1))],
                                 !.draws = pushed.draws + Max(prev, 0)],
                             activationFunction, neuronCount, n + 1)

\* what addLayer makes of the object and how it ends
AddLayerOutcome(a, type, activationFunction, neuronCount) ==
    IF type = "INPUT_LAYER" /\ a.layers_ # <<>> THEN [ann |-> a, status |-> "logic_error"]
    ELSE LET placed == [a EXCEPT !.layers_ = Append(a.layers_, [type |-> type, neuronCount |-> neuronCount]),
                                 !.layerWeightOffsets_ = Append(a.layerWeightOffsets_, Len(a.weights_))]
         IN IF type = "INPUT_LAYER" THEN [ann |-> placed, status |-> "ok"]
            ELSE InitNeurons(placed, activationFunction, neuronCount, 0)

\* void addLayer(core::LayerType type, float (*activationFunction)(float), int neuronCount)
ANNAddLayer(type, activationFunction, neuronCount) ==
    /\ Len(ann.layers_) < MaxFlatLayers
    /\ \E ret \in {AddLayerOutcome(ann, type, activationFunction, neuronCount)} :
          /\ ann' = ret.ann
          /\ annLast' = [op |-> "addLayer", status |-> ret.status, type |-> type,
                         activationFunction |-> activationFunction, neuronCount |-> neuronCount,
                         before |-> Containers(ann)]

---------------------------------------------------------------------------
(* The state machines *)

InitData ==
    /\ inputs = <<>>
    /\ outputs = <<>>
    /\ indices = <<>>
    /\ numSamples = 0
    /\ batchInputBuffer = <<>>
    /\ batchOutputBuffer = <<>>
    /\ dsLast = [op |-> "none", status |-> "ok"]
    /\ added = <<>>
    /\ held = [op |-> "none"]

InitNet ==
    /\ layers = <<>>
    /\ built = FALSE
    /\ netLast = [op |-> "none"]
    /\ netRef = [op |-> "none"]

InitLoss == lossLast = [op |-> "none"] /\ lossArgs = [op |-> "none"]

\* ANN(): the five vectors empty, no float drawn from rng_ yet
InitLegacy == ann = EmptyANN /\ annLast = [op |-> "none"]

\* no fit call is running; the optimizer is SGD(1.0f); no thread is in predict
InitFit == fit = FitLocals /\ sgd = [learningRate |-> F(1)] /\ calls = [t \in Threads |-> NoCall]

Init == InitData /\ InitNet /\ InitFit /\ InitLoss /\ InitLegacy

NextData ==
    \/ \E s \in Samples(numSamples) : AddSampleSpan(s.in, s.out) /\ UNCHANGED exceptData
    \/ \E s \in Samples(numSamples) : AddSampleArray(s.in, s.out) /\ UNCHANGED exceptData
    \/ Shuffle /\ UNCHANGED exceptData
    \/ \E seed \in 0..MaxSeed : ShuffleSeed(seed) /\ UNCHANGED exceptData
    \/ \E batchSize \in BatchSizes : NumBatches(batchSize) /\ UNCHANGED exceptData
    \/ \E batchIndex \in BatchIndexes, batchSize \in BatchSizes : GetBatch(batchIndex, batchSize) /\ UNCHANGED exceptData

SpecData == Init /\ [][NextData]_vars

\* a caller that fills the Dataset, takes batches and keeps the returned spans
NextViews ==
    \/ \E s \in Samples(numSamples) : AddSampleArray(s.in, s.out) /\ UNCHANGED exceptData
    \/ \E batchIndex \in BatchIndexes, batchSize \in 1..MaxBatchSize : GetBatch(batchIndex, batchSize) /\ UNCHANGED exceptData
    \/ HoldView /\ UNCHANGED exceptData

SpecViews == Init /\ [][NextViews]_vars

\* the vectors of the given length over Vals
Vectors(n) == [1..n -> Vals]

NextNet ==
    \/ \E layer \in LayerChoices : AddLayer(layer) /\ UNCHANGED exceptNet
    \/ Build /\ UNCHANGED exceptNet
    \/ \E n \in 1..MaxInputSize : \E input \in Vectors(n), junk \in Vectors(MaxInputSize), keep \in BOOLEAN :
          Predict(input, junk, keep) /\ UNCHANGED exceptNet

SpecNet == Init /\ [][NextNet]_vars

\* the spans callers pass to MSE: of n floats, all 0, all 1, or 0 and 1 in turn
LossVectors(n) == {[i \in 1..n |-> F(((i * a) + b) % 2)] : a \in 0..1, b \in 0..1}
\* the lengths of the other spans of a call whose prediction has n floats
NearLengths(n) == {k \in {n - 1, n, n + 1} : k >= 0}
\* what the memory after a span holds
LossJunk == {[i \in 1..(MaxLossLen + 1) |-> F(b)] : b \in 0..1}

\* the spans a caller holds: a prediction, a target and a gradient span filled with 3.0f
LossCalls ==
    UNION { [op : {"spans"}, yPredict : LossVectors(n), yTrue : LossVectors(m),
             gradOut : {[i \in 1..k |-> F(3)]}, junk : LossJunk]
            : <<n, m, k>> \in {t \in (0..MaxLossLen) \X (0..(MaxLossLen + 1)) \X (0..(MaxLossLen + 1)) :
                                 t[2] \in NearLengths(t[1]) /\ t[3] \in NearLengths(t[1])} }

\* a caller holding spans
InitLossCalls ==
    InitData /\ InitNet /\ InitFit /\ InitLegacy /\ lossLast = [op |-> "none"] /\ lossArgs \in LossCalls

NextLoss ==
    \/ \E build \in Builds :
          MSECompute(build, lossArgs.yPredict, lossArgs.yTrue) /\ UNCHANGED exceptLoss
    \/ \E build \in Builds :
          MSEGradient(build, lossArgs.yPredict, lossArgs.yTrue, lossArgs.gradOut, lossArgs.junk)
             /\ UNCHANGED exceptLoss

SpecLoss == InitLossCalls /\ [][NextLoss]_vars

\* the networks callers train on a Dataset<2, 1>
FitNets ==
    { <<Dense("Identity", 2, 1, Floats(<<1, 1>>), Floats(<<0>>))>>,
      <<Dense("ReLU", 2, 2, Floats(<<1, -1, 0, 2>>), Floats(<<1, 0>>)),
        Dense("Identity", 2, 1, Floats(<<1, 1>>), Floats(<<0>>))>>,
      <<Dense("ReLU", 2, 1, Floats(<<-1, 2>>), Floats(<<0>>)),
        Dense("Identity", 1, 1, Floats(<<-1>>), Floats(<<1>>))>>,
      <<Dense("Identity", 2, 2, Floats(<<1, 1, 0, -1>>), Floats(<<0, 1>>)),
        Dense("ReLU", 2, 2, Floats(<<1, 0, -1, 1>>), Floats(<<0, 0>>)),
        Dense("Identity", 2, 1, Floats(<<1, -1>>), Floats(<<0>>))>> }
\* the learning rates callers construct SGD with: 0.5f
FitRates == {F(1) \div 2}
\* the int arguments callers pass to fit
FitEpochs == 0..MaxEpochs
FitBatchSizes == -1..MaxFitBatchSize
\* what the memory next to the scratch arrays holds
FitJunk == {[i \in 1..MaxInputSize |-> F(b)] : b \in 0..1}

\* a built network, an optimizer and an empty Dataset
InitTrain ==
    /\ InitData
    /\ InitLoss
    /\ InitLegacy
    /\ layers \in FitNets
    /\ built = TRUE
    /\ netLast = [op |-> "none"]
    /\ netRef = [op |-> "none"]
    /\ fit = FitLocals
    /\ calls = [t \in Threads |-> NoCall]
    /\ sgd \in {[learningRate |-> r] : r \in FitRates}

NextFit ==
    \/ \E s \in Samples(numSamples) :
          /\ fit.pc = "idle"
          /\ numSamples < MaxFitSamples
          /\ AddSampleArray(s.in, s.out)
          /\ UNCHANGED exceptData
    \/ \E epochs \in FitEpochs, batchSize \in FitBatchSizes, shuffle \in BOOLEAN, junk \in FitJunk :
          FitCall(epochs, batchSize, shuffle, junk)
    \/ FitRun

SpecFit == InitTrain /\ [][NextFit]_vars

\* fit called with an epochs argument that is not positive, on Datasets of at most
\* MaxSignedSamples samples
MaxSignedSamples == 1
SignedEpochs == -1..0

NextFitSigned ==
    \/ \E s \in Samples(numSamples) :
          /\ fit.pc = "idle"
          /\ numSamples < MaxSignedSamples
          /\ AddSampleArray(s.in, s.out)
          /\ UNCHANGED exceptData
    \/ \E epochs \in SignedEpochs, shuffle \in BOOLEAN, junk \in FitJunk :
          FitCall(epochs, 1, shuffle, junk)
    \/ FitRun

SpecFitSigned == InitTrain /\ [][NextFitSigned]_vars

\* the gradients a layer holds when a caller steps it: 0, +-1/8, 3/8, +-1, 2
StepGrads == {0, 1, -1, 3, F(1), F(-1), F(2)}
\* Dense<Identity, 2, 1> layers: fresh from the constructor (gradient arrays uninitialised), or
\* with accumulated gradients
StepLayers ==
    {Dense("Identity", 2, 1, w, b) : w \in {Floats(<<1, -1>>), Floats(<<0, 2>>)}, b \in {Floats(<<1>>)}}
    \cup {[Dense("Identity", 2, 1, w, Floats(<<1>>)) EXCEPT !.gradWeights = <<g1, g2>>, !.gradBiases = <<g3>>] :
             w \in {Floats(<<1, -1>>), Floats(<<0, 2>>)}, g1 \in StepGrads, g2 \in {0, 3, F(-1)}, g3 \in {0, F(2)}}
\* the learning rates callers construct SGD with: 0.5f, 1.0f, 60.0f
StepRates == {F(1) \div 2, F(1), F(60)}

\* a layer and an optimizer
InitStep ==
    /\ InitData
    /\ InitLoss
    /\ InitLegacy
    /\ layers \in {<<l>> : l \in StepLayers}
    /\ built = TRUE
    /\ netLast = [op |-> "none"]
    /\ netRef = [op |-> "none"]
    /\ fit = FitLocals
    /\ calls = [t \in Threads |-> NoCall]
    /\ sgd \in {[learningRate |-> r] : r \in StepRates}

NextStep == \E k \in 1..MaxLayers, junk \in FitJunk : Step(k, junk)

SpecStep == InitStep /\ [][NextStep]_vars

\* fit is not suspended: a running call takes its next step
SpecFitLive == SpecFit /\ WF_vars(FitRun)

\* Dense<ReLU, 2, 2> and Dense<Identity, 2, 2> layers after a forward call, with gradient arrays
\* that are zero or hold earlier contributions
BackwardLayers ==
    {[Dense(act, 2, 2, Floats(<<1, -1, 0, 2>>), Floats(<<1, 0>>))
        EXCEPT !.lastInput = in, !.lastActivation = out, !.gradWeights = gw, !.gradBiases = gb] :
     act \in {"ReLU", "Identity"},
     in \in {Floats(<<1, 0>>), Floats(<<-1, 2>>)},
     out \in {Floats(<<0, 1>>), Floats(<<2, -1>>)},
     gw \in {Floats(<<0, 0, 0, 0>>), Floats(<<1, -2, 0, 3>>)},
     gb \in {Floats(<<0, 0>>), Floats(<<-1, 4>>)}}
\* the gradOutput spans callers pass, and the gradInput spans (as long as InputSize or longer)
BackwardGradOutputs == {Floats(<<1, -1>>), <<3, F(2)>>, Floats(<<0, 60>>)}
BackwardGradInputs == {Floats(<<0, 0>>), Floats(<<5, -3>>), Floats(<<5, -3, 7>>)}

\* a layer after forward
InitBackward ==
    /\ InitData
    /\ InitLoss
    /\ InitLegacy
    /\ layers \in {<<l>> : l \in BackwardLayers}
    /\ built = TRUE
    /\ netLast = [op |-> "none"]
    /\ netRef = [op |-> "none"]
    /\ fit = FitLocals
    /\ sgd = [learningRate |-> F(1)]
    /\ calls = [t \in Threads |-> NoCall]

NextBackward ==
    \E k \in 1..MaxLayers, gradOutput \in BackwardGradOutputs, gradInput \in BackwardGradInputs :
        DenseBackward(k, gradOutput, gradInput, gradInput)

SpecBackward == InitBackward /\ [][NextBackward]_vars

\* the networks the threads share; the caches hold what an earlier call left
ConcNets ==
    { <<[Dense("Identity", 2, 2, Floats(<<1, 0, 0, 1>>), Floats(<<0, 0>>))
            EXCEPT !.lastInput = Floats(<<0, 0>>), !.lastActivation = Floats(<<0, 0>>)]>>,
      <<[Dense("ReLU", 2, 2, Floats(<<1, -1, 0, 2>>), Floats(<<1, 0>>))
            EXCEPT !.lastInput = Floats(<<0, 0>>), !.lastActivation = Floats(<<0, 0>>)],
        [Dense("Identity", 2, 1, Floats(<<1, 1>>), Floats(<<0>>))
            EXCEPT !.lastInput = Floats(<<0, 0>>), !.lastActivation = Floats(<<0>>)]>> }
\* the inputs the threads pass
ConcInputs == {Floats(<<0, 1>>), Floats(<<1, 0>>), Floats(<<1, 1>>)}

\* a built network and no call
InitConc ==
    /\ InitData
    /\ InitLoss
    /\ InitLegacy
    /\ layers \in ConcNets
    /\ built = TRUE
    /\ netLast = [op |-> "none"]
    /\ netRef = [op |-> "none"]
    /\ fit = FitLocals
    /\ sgd = [learningRate |-> F(1)]
    /\ calls = [t \in Threads |-> NoCall]

NextConc ==
    \/ \E t \in Threads, input \in ConcInputs : CallPredict(t, input)
    \/ \E t \in Threads : StoreInput(t)
    \/ \E t \in Threads : StoreActivation(t)
    \/ \E t \in Threads : LoadActivation(t)

SpecConc == InitConc /\ [][NextConc]_vars

\* what callers pass to the flat network's addLayer
LayerTypes == {"INPUT_LAYER", "DENSE_LAYER"}
ActivationPointers == {"sigmoid", "relu"}
NeuronCounts == 0..MaxNeurons

NextLegacy ==
    \E type \in LayerTypes, activationFunction \in ActivationPointers, neuronCount \in NeuronCounts :
        ANNAddLayer(type, activationFunction, neuronCount) /\ UNCHANGED exceptLegacy

SpecLegacy == Init /\ [][NextLegacy]_vars

---------------------------------------------------------------------------
(* Properties of the Dataset *)

\* the fields of the Dataset other than the two scratch buffers
content == <<inputs, outputs, indices, numSamples>>

\* the span getBatch returned over a scratch buffer: its first len floats
View(buffer, len) == SubSeq(buffer, 1, len)

\* ceil(n / b) over the naturals
CeilDiv(n, b) == IF n % b = 0 THEN n \div b ELSE (n \div b) + 1

IsIdentity(p) == \A i \in 1..Len(p) : p[i] = i - 1

\* C4: a successful getBatch(batchIndex, batchSize) returns views of exactly
\* min(batchSize, numSamples - batchIndex * batchSize) rows, and row i of the views is the stored
\* input / output of sample indices[batchIndex * batchSize + i], also when the scratch buffers
\* are longer than the batch.
C4_BatchViews ==
    (dsLast.op = "getBatch" /\ dsLast.status = "ok") =>
        LET first == dsLast.batchIndex * dsLast.batchSize
            rows == Min(dsLast.batchSize, numSamples - first)
        IN /\ dsLast.inLen = rows * InputSize
           /\ dsLast.outLen = rows * OutputSize
           /\ \A i \in 0..(rows - 1) :
                /\ Row(View(batchInputBuffer, dsLast.inLen), i, InputSize)
                       = Row(inputs, At(indices, first + i), InputSize)
                /\ Row(View(batchOutputBuffer, dsLast.outLen), i, OutputSize)
                       = Row(outputs, At(indices, first + i), OutputSize)

\* C4, witness: the second batch of a shuffled dataset, shorter than the scratch buffer left by
\* an earlier, bigger batch.
C4_Witness ==
    /\ dsLast.op = "getBatch" /\ dsLast.status = "ok"
    /\ dsLast.batchIndex > 0
    /\ Len(batchInputBuffer) > dsLast.inLen
    /\ ~IsIdentity(indices)

\* the sample indices getBatch(batchIndex, batchSize) gathers, in batch order
BatchSamples(batchIndex, batchSize) ==
    [i \in 1..ActualBatchSize(batchIndex, batchSize) |->
        SampleIdx(StartSample(batchIndex, batchSize), i - 1)]

RECURSIVE BatchesFrom(_, _)
\* the sample indices of the batches batchIndex .. numBatches(batchSize) - 1, one after another
BatchesFrom(batchIndex, batchSize) ==
    IF batchIndex >= NumBatchesOf(numSamples, batchSize) THEN <<>>
    ELSE BatchSamples(batchIndex, batchSize) \o BatchesFrom(batchIndex + 1, batchSize)

\* C5: for every batchSize >= 1 and every current permutation, the batches 0 .. numBatches - 1
\* together contain each sample index of [0, numSamples) exactly once.
C5_BatchesCoverEachSampleOnce ==
    \A batchSize \in BatchSizes \ {0} :
        LET all == BatchesFrom(0, batchSize)
        IN /\ Len(all) = numSamples
           /\ Range(all) = 0..(numSamples - 1)

\* C5, observation: the batches cover the samples whenever numSamples + batchSize - 1 fits the word.
C5_CoverWhenSumFits ==
    \A batchSize \in BatchSizes \ {0} :
        (numSamples + batchSize - 1 < Word) =>
            LET all == BatchesFrom(0, batchSize)
            IN /\ Len(all) = numSamples
               /\ Range(all) = 0..(numSamples - 1)

\* C6: numBatches(batchSize) returns ceil(numSamples / batchSize) for every batchSize >= 1 of the
\* word type.
C6_NumBatchesIsCeil ==
    (dsLast.op = "numBatches" /\ dsLast.status = "ok") =>
        dsLast.ret = CeilDiv(numSamples, dsLast.batchSize)

\* C6, observation: the result is the ceiling whenever numSamples + batchSize - 1 fits the word.
C6_CeilWhenSumFits ==
    (dsLast.op = "numBatches" /\ dsLast.status = "ok" /\ numSamples + dsLast.batchSize - 1 < Word) =>
        dsLast.ret = CeilDiv(numSamples, dsLast.batchSize)

\* C7: getBatch fails exactly when batchSize = 0 (invalid argument, checked first) or
\* batchIndex >= numBatches(batchSize) (out of range), so it always fails on an empty dataset;
\* numBatches fails exactly when batchSize = 0; a failing call changes no field of the Dataset.
C7_BatchCallFailures ==
    [][ /\ dsLast'.op = "getBatch" =>
            /\ (dsLast'.status = "invalid_argument") = (dsLast'.batchSize = 0)
            /\ (dsLast'.status = "out_of_range") =
                   (/\ dsLast'.batchSize # 0
                    /\ dsLast'.batchIndex >= NumBatchesOf(numSamples, dsLast'.batchSize))
            /\ dsLast'.status \in {"ok", "invalid_argument", "out_of_range"}
            /\ numSamples = 0 => dsLast'.status # "ok"
            /\ dsLast'.status # "ok" => UNCHANGED <<content, batchInputBuffer, batchOutputBuffer>>
        /\ dsLast'.op = "numBatches" =>
            /\ (dsLast'.status = "invalid_argument") = (dsLast'.batchSize = 0)
            /\ dsLast'.status \in {"ok", "invalid_argument"}
            /\ UNCHANGED <<content, batchInputBuffer, batchOutputBuffer>>
      ]_vars

\* C7, witness: an out-of-range getBatch on a dataset that holds samples and a filled scratch buffer.
C7_Witness ==
    /\ dsLast.op = "getBatch" /\ dsLast.status = "out_of_range"
    /\ numSamples > 0
    /\ Len(batchInputBuffer) > 0

\* C8: addSample with an ill-sized input or output fails and changes nothing; otherwise it appends
\* the rows, appends the old numSamples to the permutation and increments numSamples, leaving
\* the earlier rows and permutation entries where they were.
C8_AddSample ==
    [][ dsLast'.op = "addSample" =>
            IF Len(dsLast'.in) # InputSize \/ Len(dsLast'.out) # OutputSize
            THEN /\ dsLast'.status = "invalid_argument"
                 /\ UNCHANGED <<content, batchInputBuffer, batchOutputBuffer>>
            ELSE /\ dsLast'.status = "ok"
                 /\ inputs' = inputs \o dsLast'.in
                 /\ outputs' = outputs \o dsLast'.out
                 /\ indices' = indices \o <<numSamples>>
                 /\ numSamples' = numSamples + 1
      ]_vars

\* C8, witness: a rejected addSample on a dataset that holds samples in shuffled order.
C8_Witness ==
    /\ dsLast.op = "addSample" /\ dsLast.status = "invalid_argument"
    /\ numSamples >= 2
    /\ ~IsIdentity(indices)

\* C9: indices is a permutation of [0, numSamples), inputs holds numSamples * InputSize floats and
\* outputs numSamples * OutputSize floats, after every sequence of calls.
C9_WellFormed ==
    /\ Len(indices) = numSamples
    /\ Range(indices) = 0..(numSamples - 1)
    /\ Len(inputs) = numSamples * InputSize
    /\ Len(outputs) = numSamples * OutputSize

\* C9, witness: a full dataset in shuffled order, after a batch was taken and an addSample rejected.
C9_Witness ==
    /\ numSamples = MaxSamples
    /\ ~IsIdentity(indices)
    /\ Len(batchInputBuffer) > 0
    /\ dsLast.op = "addSample" /\ dsLast.status = "invalid_argument"

\* C10: shuffle() and shuffle(seed) change only indices; getBatch changes only the two scratch
\* buffers; the row at position s of inputs / outputs is the s-th sample ever added.
C10_SamplesNeverMove ==
    /\ [][ /\ dsLast'.op \in {"shuffle", "shuffleSeed"} =>
                UNCHANGED <<inputs, outputs, numSamples, batchInputBuffer, batchOutputBuffer>>
           /\ dsLast'.op = "getBatch" => UNCHANGED <<inputs, outputs, indices, numSamples>>
         ]_vars
    /\ [](/\ Len(added) = numSamples
          /\ \A s \in 0..(numSamples - 1) :
                /\ Row(inputs, s, InputSize) = At(added, s).in
                /\ Row(outputs, s, OutputSize) = At(added, s).out)

\* C10, witness: a batch taken from a full dataset in shuffled order.
C10_Witness ==
    /\ dsLast.op = "getBatch" /\ dsLast.status = "ok"
    /\ numSamples = MaxSamples
    /\ ~IsIdentity(indices)

\* the permutation of a Dataset of n samples that was never shuffled
FreshIndices(n) == [i \in 1..n |-> i - 1]

\* C11: after shuffle(seed) the permutation is the one a Dataset with the same number of samples
\* and no earlier shuffle ends with after shuffle(seed) with the same seed: the result depends on
\* the seed and the sample count only, not on the shuffles applied before.
C11_ShuffleSeedReproducible ==
    dsLast.op = "shuffleSeed" => indices = StdShuffle(FreshIndices(numSamples), dsLast.seed)

\* C11, observation: shuffle(seed) permutes the positions of the current order; started from the
\* same order with the same seed, it ends with the same order.
C11_ReproducibleFromSameOrder ==
    [][ dsLast'.op = "shuffleSeed" =>
            /\ indices' = StdShuffle(indices, dsLast'.seed)
            /\ IsIdentity(indices) => indices' = StdShuffle(FreshIndices(numSamples), dsLast'.seed)
      ]_vars

\* the floats a held span shows now
Shows(span, buffer) == IF span.freed THEN span.shows ELSE SubSeq(buffer, 1, span.len)

\* rows 0 .. rows - 1 of two row-major matrices are equal
SameRows(a, b, rows, width) == \A i \in 0..(rows - 1) : Row(a, i, width) = Row(b, i, width)

\* a getBatch call succeeded after the caller kept the spans of an earlier one
LaterBatch == held.op = "view" /\ ~held.fresh /\ dsLast.op = "getBatch" /\ dsLast.status = "ok"

\* C12: after getBatch returned view V1 and a later getBatch succeeded on the same Dataset, for
\* every row i below the new batch's size (and V1's), row i of V1 holds row i of the new batch.
C12_HeldViewShowsNewBatch ==
    LaterBatch =>
        /\ SameRows(Shows(held.in, batchInputBuffer), batchInputBuffer,
                    Min(held.in.len, dsLast.inLen) \div InputSize, InputSize)
        /\ SameRows(Shows(held.out, batchOutputBuffer), batchOutputBuffer,
                    Min(held.out.len, dsLast.outLen) \div OutputSize, OutputSize)

\* C12, amended: as long as no getBatch since V1 was returned needed a longer scratch buffer than
\* the Dataset had then (so the storage was not reallocated), row i of V1 holds row i of the
\* newest batch for every row i below both sizes, and no longer V1's own batch where they differ.
C12_HeldViewAliasesUnlessGrown ==
    LaterBatch =>
        /\ Len(batchInputBuffer) = held.in.size =>
              SameRows(Shows(held.in, batchInputBuffer), batchInputBuffer,
                       Min(held.in.len, dsLast.inLen) \div InputSize, InputSize)
        /\ Len(batchOutputBuffer) = held.out.size =>
              SameRows(Shows(held.out, batchOutputBuffer), batchOutputBuffer,
                       Min(held.out.len, dsLast.outLen) \div OutputSize, OutputSize)

\* C12, witness: a held view of two rows whose storage did not grow; a later batch of one row
\* was gathered, and the view now shows that row in place of its own first row.
C12_Witness ==
    /\ LaterBatch
    /\ Len(batchInputBuffer) = held.in.size
    /\ held.in.len = 2 * InputSize
    /\ dsLast.inLen = InputSize
    /\ Shows(held.in, batchInputBuffer) # held.in.own
    /\ Shows(held.out, batchOutputBuffer) # held.out.own

---------------------------------------------------------------------------
(* Properties of the network *)

\* the inter-layer width contract: the output width of a layer is the input width of the next
WidthsMatch(ls) == \A k \in 1..(Len(ls) - 1) : ls[k].outputSize = ls[k + 1].inputSize

RECURSIVE RefSum(_, _, _, _)
\* bias[o] + sum over i in [0, n) of v[i] * W[o, i], v a vector of exactly InputSize floats
RefSum(layer, v, o, n) ==
    IF n = 0 THEN At(layer.biases, o)
    ELSE FAdd(RefSum(layer, v, o, n - 1),
              FMul(At(v, n - 1), At(layer.weights, (o * layer.inputSize) + (n - 1))))

\* a layer's forward function: out[o] = Activation.compute(bias[o] + sum_i in[i] * W[o, i])
RefForward(layer, v) ==
    [o \in 1..layer.outputSize |-> Activate(layer.act, RefSum(layer, v, o - 1, layer.inputSize))]

RECURSIVE RefPredict(_, _)
\* the layers' forward functions applied one after another, in construction order
RefPredict(ls, v) == IF ls = <<>> THEN v ELSE RefPredict(Tail(ls), RefForward(Head(ls), v))

\* the network input fits the scratch buffers
InputFits(ls) == NetInputSize(ls) <= MaxOutputSize(ls)

\* C1: for every valid layer sequence and every input, predict returns the value obtained by
\* applying the layers' forward functions one after another, in construction order, to the input.
C1_PredictIsComposition ==
    (netLast.op = "predict" /\ WidthsMatch(layers))
        => netLast.out = RefPredict(layers, netLast.in)

\* C1, observation: the equality holds on every valid network whose input fits the buffers.
C1_CompositionWhenInputFits ==
    (netLast.op = "predict" /\ WidthsMatch(layers) /\ InputFits(layers))
        => netLast.out = RefPredict(layers, netLast.in)

\* C2: predict is deterministic: with the parameters fixed, a predict call returns the output
\* an earlier predict call with the same input returned, whatever calls were made in between.
C2_PredictDeterministic ==
    (netLast.op = "predict" /\ netRef.op = "predict" /\ WidthsMatch(layers) /\ netRef.in = netLast.in)
        => netLast.out = netRef.out

\* C2, observation: it holds on every valid network whose input fits the buffers.
C2_DeterministicWhenInputFits ==
    (netLast.op = "predict" /\ netRef.op = "predict" /\ WidthsMatch(layers) /\ InputFits(layers)
        /\ netRef.in = netLast.in)
        => netLast.out = netRef.out

\* C3: a Network is only ever constructed from a layer sequence whose adjacent widths match;
\* predict never runs on a sequence that violates this.
C3_ConstructionRejectsMismatch ==
    /\ built => WidthsMatch(layers)
    /\ netLast.op = "predict" => WidthsMatch(layers)

---------------------------------------------------------------------------
(* Properties of the loss *)

\* every index of [0, n) occurs exactly once in the list
EachIndexOnce(list, n) == Len(list) = n /\ Range(list) = 0..(n - 1)

RECURSIVE NaiveSum(_, _, _)
\* the sequential sum of (pred_i - true_i)^2 over i in [0, n)
NaiveSum(pred, true, n) ==
    IF n = 0 THEN F(0)
    ELSE LET diff == FSub(At(pred, n - 1), At(true, n - 1))
         IN FAdd(NaiveSum(pred, true, n - 1), FMul(diff, diff))

\* C13: compute fails with a size-mismatch error whenever prediction and target differ in length;
\* gradient fails with one whenever the output span's length differs from the prediction's, and
\* the failing gradient call writes no element of the output span.
C13_SizeMismatchErrors ==
    /\ lossLast.op = "compute" =>
          (lossLast.status = "runtime_error") = (Len(lossLast.yPredict) # Len(lossLast.yTrue))
    /\ lossLast.op = "gradient" =>
          /\ (lossLast.status = "runtime_error") = (Len(lossLast.before) # Len(lossLast.yPredict))
          /\ lossLast.status = "runtime_error" => lossLast.gradOut = lossLast.before

\* C13, witness: a rejected gradient call on spans long enough for the 8-wide loop, whose output
\* span is one float short.
C13_Witness ==
    /\ lossLast.op = "gradient" /\ lossLast.status = "runtime_error"
    /\ lossLast.build = "avx2"
    /\ Len(lossLast.yPredict) > Lanes
    /\ Len(lossLast.before) = Len(lossLast.yPredict) - 1
    /\ Len(lossLast.yTrue) = Len(lossLast.yPredict)

\* C14: for every length n and every build, compute takes each index of [0, n) into the sum
\* exactly once and returns the naive sequential mean of (pred_i - true_i)^2; gradient writes
\* every out_i, i in [0, n), exactly once, with (2/n) * (pred_i - true_i).
C14_LanesEqualNaive ==
    /\ (lossLast.op = "compute" /\ lossLast.status = "ok") =>
          LET n == Len(lossLast.yPredict)
          IN /\ EachIndexOnce(lossLast.seen, n)
             /\ lossLast.ret = FDiv(NaiveSum(lossLast.yPredict, lossLast.yTrue, n), FromSize(n))
    /\ (lossLast.op = "gradient" /\ lossLast.status = "ok"
           /\ Len(lossLast.yTrue) >= Len(lossLast.yPredict)) =>
          LET n == Len(lossLast.yPredict)
          IN /\ EachIndexOnce(lossLast.written, n)
             /\ \A i \in 0..(n - 1) :
                   At(lossLast.gradOut, i) =
                       FMul(FDiv(F(2), FromSize(n)), FSub(At(lossLast.yPredict, i), At(lossLast.yTrue, i)))

\* C14, witness: a compute call of the guarded AVX2 build over two full blocks and a remainder,
\* with a nonzero mean.
C14_Witness ==
    /\ lossLast.op = "compute" /\ lossLast.status = "ok"
    /\ lossLast.build = "avx2_guarded"
    /\ Len(lossLast.yPredict) > 2 * Lanes
    /\ lossLast.ret # F(0)
    /\ \E i \in 1..Len(lossLast.yPredict) : lossLast.yPredict[i] = lossLast.yTrue[i]

\* C15: compute(x, x) = 0 for every vector x, of any length including length 0.
C15_ComputeOfEqualIsZero ==
    (lossLast.op = "compute" /\ lossLast.status = "ok" /\ lossLast.yPredict = lossLast.yTrue)
        => lossLast.ret = F(0)

\* C15, observation: compute(x, x) = 0 for every vector x of at least one float.
C15_ZeroWhenNotEmpty ==
    (lossLast.op = "compute" /\ lossLast.status = "ok" /\ lossLast.yPredict = lossLast.yTrue
        /\ Len(lossLast.yPredict) > 0)
        => lossLast.ret = F(0)

---------------------------------------------------------------------------
(* Properties of SGD *)

\* both gradient arrays of the layer have been written (by clearGradients or backward)
GradientsInitialised(layer) ==
    /\ Len(layer.gradWeights) = Len(layer.weights)
    /\ Len(layer.gradBiases) = Len(layer.biases)

\* C16: a call of SGD::step on a layer whose gradient arrays are initialised replaces every weight
\* and bias w by w - learningRate * g for its own gradient g (so each entry is updated once),
\* leaves the gradient arrays, the other layers and learningRate as they were; the optimizer
\* holds nothing else, so a call's result depends on the layer and learningRate only.
C16_StepDescends ==
    [][(netLast'.op = "step" /\ netLast' # netLast /\ GradientsInitialised(layers[netLast'.layer])) =>
         LET k == netLast'.layer
             old == layers[k]
             new == layers'[k]
             lr == sgd.learningRate
         IN /\ Len(new.weights) = Len(old.weights)
            /\ Len(new.biases) = Len(old.biases)
            /\ \A i \in 1..Len(old.weights) :
                  new.weights[i] = FSub(old.weights[i], FMul(lr, old.gradWeights[i]))
            /\ \A i \in 1..Len(old.biases) :
                  new.biases[i] = FSub(old.biases[i], FMul(lr, old.gradBiases[i]))
            /\ new.gradWeights = old.gradWeights
            /\ new.gradBiases = old.gradBiases
            /\ new = [old EXCEPT !.weights = new.weights, !.biases = new.biases]
            /\ \A j \in 1..Len(layers) : j # k => layers'[j] = layers[j]
            /\ Len(layers') = Len(layers)
            /\ sgd' = sgd
            /\ DOMAIN sgd = {"learningRate"}]_vars

\* a second call in a row has moved the weights and the bias again
C16_Witness ==
    /\ netLast.op = "step"
    /\ netLast.calls = 2
    /\ GradientsInitialised(layers[1])
    /\ \A i \in 1..2 : layers[1].weights[i] # netLast.before.weights[i]
    /\ layers[1].biases # netLast.before.biases
    /\ \A i \in 1..2 : Abs(layers[1].weights[i]) < FloatMax

---------------------------------------------------------------------------
(* Properties of NN::fit *)

\* a fit call with epochs >= 0 and batchSize >= 1 has been made
FitCalledInRange == fit.pc # "idle" /\ fit.epochs >= 0 /\ fit.batchSize >= 1

\* C17: a fit call with epochs >= 0 and batchSize >= 1 returns; when it does it has run exactly
\* epochs epoch iterations, and at the end of every epoch iteration it has run exactly
\* numBatches(batchSize) batch iterations.
C17_FitTerminates ==
    /\ [](FitCalledInRange /\ fit.pc = "epochEnd" =>
             /\ fit.batchesRun = NumBatchesOf(numSamples, fit.batchSize)
             /\ fit.batchesRun = fit.numBatches
             /\ fit.epochsRun = fit.epoch + 1)
    /\ [](FitCalledInRange /\ fit.pc = "returned" => fit.epochsRun = fit.epochs)
    /\ [](FitCalledInRange => fit.pc # "threw" /\ fit.epochsRun <= fit.epochs)
    /\ (FitCalledInRange ~> fit.pc = "returned")

\* two epochs of two batches each have run and fit has returned
C17_Witness ==
    /\ fit.pc = "returned"
    /\ fit.epochs = 2
    /\ fit.epochsRun = 2
    /\ fit.batchSize = 1
    /\ numSamples = 2
    /\ fit.batchesRun = 2

Parameters(ls) == [k \in 1..Len(ls) |-> <<ls[k].weights, ls[k].biases>>]
Accumulators(ls) == [k \in 1..Len(ls) |-> <<ls[k].gradWeights, ls[k].gradBiases>>]

\* C19: of the steps of fit, predict changes no weight, bias or gradient accumulator of any
\* layer; backward, clearGradients and scaleGradients change no weight or bias; only the
\* optimizer's step changes a weight or a bias, and it changes no gradient accumulator.
C19_Frame ==
    [][/\ fit.pc = "predict" =>
            Parameters(layers') = Parameters(layers) /\ Accumulators(layers') = Accumulators(layers)
       /\ fit.pc \in {"clear", "backward", "scale"} => Parameters(layers') = Parameters(layers)
       /\ fit.pc = "step" => Accumulators(layers') = Accumulators(layers)
       /\ Parameters(layers') # Parameters(layers) => fit.pc = "step"]_vars

\* a batch of two samples has been through predict, backward and scaleGradients, which changed
\* the caches and the accumulators, and the optimizer's step has then changed the weights
C19_Witness ==
    /\ fit.pc = "epochEnd"
    /\ fit.currentBatchSize = 2
    /\ Len(layers) = 2
    /\ Parameters(layers) \notin {Parameters(ls) : ls \in FitNets}
    /\ \E k \in 1..Len(layers) : \E i \in 1..Len(layers[k].gradWeights) :
          layers[k].gradWeights[i] \notin {F(0), Inf, NegInf, NaN}

---------------------------------------------------------------------------
(* Properties of concurrent predict calls *)

\* C20: predict calls running at the same time on one network write the same per-layer caches
\* and may return something else than alone: a call that returns an output different from the
\* one it returns alone has overlapped with another call (a call that did not overlap returns
\* its own output), and the witness is an interleaving in which that happens.
C20_OnlyOverlappedCallsDiffer ==
    \A t \in Threads :
        (calls[t].pc = "returned" /\ calls[t].out # calls[t].alone) => calls[t].overlapped

\* a call has returned an output that is not the one it returns alone, while the cache of the
\* last layer holds what the other call stored there
C20_Witness ==
    \E t \in Threads : \E u \in Threads \ {t} :
        /\ calls[t].pc = "returned"
        /\ calls[u].pc = "returned"
        /\ calls[t].out # calls[t].alone
        /\ calls[t].out = calls[u].alone
        /\ calls[u].out = calls[u].alone
        /\ SubSeq(layers[Len(layers)].lastActivation, 1, NetOutputSize(layers)) = calls[u].alone

---------------------------------------------------------------------------
(* Properties of a batch iteration of fit *)

\* s is a prefix of t
IsPrefix(s, t) == Len(s) <= Len(t) /\ SubSeq(t, 1, Len(s)) = s

RECURSIVE SamplesInOrder(_)
\* predict, compute, gradient, backward on the samples 0 .. m - 1 of the batch, one after another
SamplesInOrder(m) ==
    IF m = 0 THEN <<>>
    ELSE SamplesInOrder(m - 1) \o
         <<[op |-> "predict", on |-> m - 1], [op |-> "compute", on |-> m - 1],
           [op |-> "gradient", on |-> m - 1], [op |-> "backward", on |-> m - 1]>>

\* the calls of one batch iteration on n layers and m samples
BatchOrder(n, m) ==
    [k \in 1..n |-> [op |-> "clearGradients", on |-> k]] \o SamplesInOrder(m)
    \o [k \in 1..n |-> [op |-> "scaleGradients", on |-> k]] \o [k \in 1..n |-> [op |-> "step", on |-> k]]

\* the batch iteration that fetched the current batch has run to its end
BatchDone == fit.pc \in {"getBatch", "epochEnd", "returned"} /\ fit.batchesRun > 0

\* C21: the calls of a batch iteration of fit are, in this order: clearGradients on every layer;
\* predict, compute, gradient, backward for each sample in batch order; scaleGradients on every
\* layer; step on every layer in layer order. At every moment the calls made so far are the
\* beginning of that sequence, and a finished iteration has made all of it, so each layer got
\* one clear, one scale and one step.
C21_BatchOrder ==
    /\ fit.pc \notin {"idle", "threw"} =>
           IsPrefix(fit.trace, BatchOrder(Len(layers), fit.currentBatchSize))
    /\ BatchDone => fit.trace = BatchOrder(Len(layers), fit.currentBatchSize)

\* a batch of two samples on a network of two layers has been through all of it
C21_Witness ==
    /\ BatchDone
    /\ fit.currentBatchSize = 2
    /\ Len(layers) = 2
    /\ Len(fit.trace) = 14

RECURSIVE Accumulated(_, _, _, _, _)
\* entry i of gradient array a (1: gradWeights, 2: gradBiases) of layer k after the first n of the
\* contributions own have been added to 0.0f, one after another
Accumulated(own, n, k, a, i) ==
    IF n = 0 THEN F(0) ELSE FAdd(Accumulated(own, n - 1, k, a, i), own[n][k][a][i])

\* the gradient arrays that hold the contributions own added up and multiplied by scale
MeanOf(own, scale) ==
    [k \in 1..Len(layers) |->
        [a \in 1..2 |->
            [i \in 1..Len(Accumulators(layers)[k][a]) |-> FMul(Accumulated(own, Len(own), k, a, i), scale)]]]

\* the number of rows of batch b when the n samples are cut into batches of batchSize
RowsOfBatch(n, b, batchSize) == IF (b + 1) * batchSize <= n THEN batchSize ELSE n - (b * batchSize)

---------------------------------------------------------------------------
(* Properties of Dense::backward *)

\* delta of output o: gradOut[o] * Activation.derivative(cachedOut[o])
RefDelta(layer, gradOut, o) ==
    FMul(gradOut[o], IF layer.act = "ReLU"
                     THEN (IF layer.lastActivation[o] # NaN /\ layer.lastActivation[o] > 0 THEN F(1) ELSE F(0))
                     ELSE F(1))

RECURSIVE RefGradIn(_, _, _, _)
\* sum over the outputs 1 .. n of delta * W[o, i], added up from 0.0f in the order of o
RefGradIn(layer, gradOut, i, n) ==
    IF n = 0 THEN F(0)
    ELSE FAdd(RefGradIn(layer, gradOut, i, n - 1),
              FMul(RefDelta(layer, gradOut, n), layer.weights[((n - 1) * layer.inputSize) + i]))

\* C23: Dense::backward(gradOut, gradIn) after forward adds delta to gradBiases[o] and
\* delta * cachedIn[i] to gradWeights[o, i], on top of what they held, with
\* delta = gradOut[o] * derivative(cachedOut[o]); it sets gradIn[i], i < InputSize, to the sum over
\* o of delta * W[o, i] whatever gradIn held, leaves the rest of gradIn, the weights, the biases
\* and the caches as they were.
C23_DenseBackward ==
    netLast.op = "denseBackward" =>
        LET old == netLast.before
            new == layers[netLast.layer]
            gradOut == netLast.gradOutput
        IN /\ \A o \in 1..old.outputSize :
                 new.gradBiases[o] = FAdd(old.gradBiases[o], RefDelta(old, gradOut, o))
           /\ \A o \in 1..old.outputSize : \A i \in 1..old.inputSize :
                 new.gradWeights[((o - 1) * old.inputSize) + i] =
                     FAdd(old.gradWeights[((o - 1) * old.inputSize) + i],
                          FMul(RefDelta(old, gradOut, o), old.lastInput[i]))
           /\ Len(new.gradBiases) = old.outputSize
           /\ Len(new.gradWeights) = old.outputSize * old.inputSize
           /\ \A i \in 1..old.inputSize :
                 netLast.gradInput[i] = RefGradIn(old, gradOut, i, old.outputSize)
           /\ Len(netLast.gradInput) = Len(netLast.gradInputBefore)
           /\ \A i \in (old.inputSize + 1)..Len(netLast.gradInput) :
                 netLast.gradInput[i] = netLast.gradInputBefore[i]
           /\ new = [old EXCEPT !.gradBiases = new.gradBiases, !.gradWeights = new.gradWeights]

\* a second backward in a row on a ReLU layer with one inactive output: the gradient arrays hold
\* both contributions, and gradIn, which was not zero before the call, is the sum alone
C23_Witness ==
    /\ netLast.op = "denseBackward"
    /\ netLast.calls = 2
    /\ netLast.before.act = "ReLU"
    /\ netLast.before.lastActivation = Floats(<<2, -1>>)
    /\ netLast.gradOutput = Floats(<<1, -1>>)
    /\ netLast.gradInputBefore = Floats(<<5, -3>>)
    /\ netLast.gradInput = Floats(<<1, -1>>)
    /\ netLast.before.gradWeights # Floats(<<0, 0, 0, 0>>)
    /\ layers[1].gradWeights # netLast.before.gradWeights

---------------------------------------------------------------------------
(* Properties of the two scratch buffers *)

RECURSIVE RefGradOut(_, _, _)
\* the gradient layer k (1-based) of ls is handed when dLoss goes in at the last layer: dLoss for
\* the last layer, else what layer k + 1 computes as gradIn from its own gradOut
RefGradOut(ls, dLoss, k) ==
    IF k = Len(ls) THEN dLoss
    ELSE [i \in 1..ls[k + 1].inputSize |->
             RefGradIn(ls[k + 1], RefGradOut(ls, dLoss, k + 1), i, ls[k + 1].outputSize)]

\* every layer's input is no wider than the scratch buffers
LayersFit(ls) == \A k \in 1..Len(ls) : ls[k].inputSize <= MaxOutputSize(ls)

\* C24: in predict and in backward no layer reads and writes the same buffer; the buffer a layer
\* writes is the one the next processed layer reads (forward: layer k + 1 after layer k; backward:
\* reverse order, layer k - 1 after layer k); predict copies its result from the buffer the last
\* layer wrote. In fit, consequently, predict returns the composition of the layers and backward
\* hands every layer the gradIn of the layer after it (networks whose layers fit the buffers).
C24_PingPong ==
    /\ \A k \in 0..(Len(layers) - 1) :
          /\ ForwardBuffers(k).reads # ForwardBuffers(k).writes
          /\ BackwardBuffers(k).reads # BackwardBuffers(k).writes
          /\ k + 1 < Len(layers) => ForwardBuffers(k + 1).reads = ForwardBuffers(k).writes
          /\ k + 1 < Len(layers) => BackwardBuffers(k + 1).reads = BackwardBuffers(k).writes
    /\ Len(layers) > 0 =>
          /\ ForwardBuffers(0).reads = 1
          /\ BackwardBuffers(0).reads = 1
          /\ ResultBuffer(Len(layers)) = ForwardBuffers(Len(layers) - 1).writes
    /\ (fit.pc = "compute" /\ LayersFit(layers)) => fit.prediction = RefPredict(layers, fit.input)
    /\ (fit.pc \in {"predict", "scale"} /\ fit.own # <<>> /\ LayersFit(layers)) =>
          \A k \in 1..Len(layers) : \A o \in 1..layers[k].outputSize :
              fit.own[Len(fit.own)][k][2][o] = RefDelta(layers[k], RefGradOut(layers, fit.dLoss, k), o)

\* backward has run through three layers (an odd count) with a gradient that reaches the first
\* layer, after predict returned the composition
C24_Witness ==
    /\ fit.pc = "scale"
    /\ Len(layers) = 3
    /\ fit.own # <<>>
    /\ fit.prediction = RefPredict(layers, fit.input)
    /\ \E o \in 1..2 : fit.own[Len(fit.own)][1][2][o] \notin {F(0), Inf, NegInf, NaN}

\* C25: every index predict or backward reads or writes in either scratch buffer is smaller than
\* the buffer length maxLayerOutputSize, for every network.
C25_ScratchAccessesInBounds ==
    /\ netLast.op = "predict" =>
          \A a \in PredictAccesses(layers) : a[2] < MaxOutputSize(layers)
    /\ fit.backwards > 0 =>
          \A a \in BackwardAccesses(layers) : a[2] < MaxOutputSize(layers)

\* C25, observation: the accesses are in bounds on the networks none of whose layers is wider at
\* its input than maxLayerOutputSize.
C25_InBoundsWhenLayersFit ==
    LayersFit(layers) =>
        /\ \A a \in PredictAccesses(layers) : a[2] < MaxOutputSize(layers)
        /\ \A a \in BackwardAccesses(layers) : a[2] < MaxOutputSize(layers)

---------------------------------------------------------------------------
(* Properties of MSE::gradient and its target span *)

\* C26: gradient rejects a target span whose length differs from the prediction's with a
\* size-mismatch error, and a call that returns has read yTrue only at indices below its length
\* (it reads yTrue at every index it writes gradOut at).
C26_GradientChecksTarget ==
    lossLast.op = "gradient" =>
        /\ Len(lossLast.yTrue) # Len(lossLast.yPredict) => lossLast.status = "runtime_error"
        /\ lossLast.status = "ok" =>
               \A k \in 1..Len(lossLast.written) : lossLast.written[k] < Len(lossLast.yTrue)

\* C26, observation: when the target is as long as the prediction, a call that returns has read
\* yTrue inside its bounds only.
C26_InBoundsWhenTargetMatches ==
    (lossLast.op = "gradient" /\ lossLast.status = "ok" /\ Len(lossLast.yTrue) = Len(lossLast.yPredict)) =>
        \A k \in 1..Len(lossLast.written) : lossLast.written[k] < Len(lossLast.yTrue)

---------------------------------------------------------------------------
(* Properties of the batches fit is handed *)

\* the optimizer steps among the calls of the current batch iteration
StepsOf(trace) == SelectSeq(trace, LAMBDA c : c.op = "step")

\* C27: a getBatch call that returns yields at least one sample (at least one row of inputs and
\* one row of labels); in fit currentBatchSize is therefore never 0 once a batch was fetched, the
\* skip branch is not taken, and a finished batch iteration has made exactly one optimizer step
\* per layer.
C27_BatchNeverEmpty ==
    /\ (dsLast.op = "getBatch" /\ dsLast.status = "ok") =>
           /\ dsLast.inLen >= InputSize
           /\ dsLast.outLen >= OutputSize
    /\ (fit.pc \notin {"idle", "threw"} /\ fit.batchesRun > 0) => fit.currentBatchSize >= 1
    /\ BatchDone => StepsOf(fit.trace) = [k \in 1..Len(layers) |-> [op |-> "step", on |-> k]]

\* the second batch of an epoch, the partial one, has been through its optimizer steps on a
\* network of two layers
C27_Witness ==
    /\ BatchDone
    /\ dsLast.op = "getBatch"
    /\ dsLast.status = "ok"
    /\ dsLast.batchIndex = 1
    /\ dsLast.inLen = InputSize
    /\ Len(layers) = 2
    /\ Len(StepsOf(fit.trace)) = 2

\* C27, observation: under every call of getBatch on a Dataset, with batch sizes up to the
\* largest size_t, a call that returns yields at least one sample.
C27_ReturnedBatchHasSample ==
    (dsLast.op = "getBatch" /\ dsLast.status = "ok") =>
        /\ dsLast.inLen >= InputSize
        /\ dsLast.outLen >= OutputSize

---------------------------------------------------------------------------
(* Properties of fit's epochs argument *)

\* a fit call has been made and it ran nothing: it has returned, no epoch iteration was begun,
\* the Dataset was not asked to shuffle, count or fetch batches, no predict or backward ran and
\* the layers are those the network was built with
RanNothing ==
    /\ fit.pc = "returned"
    /\ fit.epochsRun = 0
    /\ dsLast.op \notin {"shuffle", "numBatches", "getBatch"}
    /\ netLast.op = "none"
    /\ layers \in FitNets

\* C28: a fit call with epochs <= 0 executes no epoch: once called it has returned, with no
\* shuffle, no getBatch, no gradient accumulation and no optimizer step, the network and the
\* Dataset as they were.
C28_NoEpochUnlessPositive == (fit.pc # "idle" /\ fit.epochs <= 0) => RanNothing

\* C28, observation: a fit call with epochs = 0 returns at once with everything as it was.
C28_NoEpochWhenZero == (fit.pc # "idle" /\ fit.epochs = 0) => RanNothing

\* C28, observation: a fit call with epochs = -1 runs as many epochs as the largest size_t.
C28_NegativeRunsToWordEnd ==
    (fit.pc = "returned" /\ fit.epochs = -1) => fit.epochsRun = Word - 1

---------------------------------------------------------------------------
(* Properties of the forward caches at backward time *)

\* the vector layer k of ls is fed when the network is given v
RefInputOf(ls, v, k) == RefPredict(SubSeq(ls, 1, k - 1), v)

\* the caches of every layer are those of a forward pass of v with the layers' present weights
CachesAreOf(ls, v) ==
    \A k \in 1..Len(ls) :
        /\ ls[k].lastInput = RefInputOf(ls, v, k)
        /\ ls[k].lastActivation = RefForward(ls[k], RefInputOf(ls, v, k))

\* the calls made since the last predict of the batch iteration, that predict included
SincePredict ==
    LET at == {k \in 1..Len(fit.trace) : fit.trace[k].op = "predict"}
    IN IF at = {} THEN <<>>
       ELSE SubSeq(fit.trace, CHOOSE k \in at : \A j \in at : j <= k, Len(fit.trace))

\* row k of the batch the Dataset handed out last
BatchRow(k) == [j \in 1..InputSize |-> At(batchInputBuffer, (k * InputSize) + (j - 1))]

\* C29: when fit calls backward, the last predict was on the same sample and only that sample's
\* compute and gradient came after it (no other predict, no step, no clearGradients), and every
\* layer's cached input and cached activation are those of that sample under the weights
\* backward is about to use.
C29_BackwardAfterItsPredict ==
    fit.pc = "backward" =>
        /\ SincePredict = <<OnSample("predict", fit.sample), OnSample("compute", fit.sample),
                            OnSample("gradient", fit.sample)>>
        /\ fit.input = BatchRow(fit.sample)
        /\ CachesAreOf(layers, fit.input)

\* C29, observation: on networks none of whose layers has an input wider than the scratch
\* buffers, backward's precondition holds at every backward of fit.
C29_PreconditionWhenLayersFit ==
    (fit.pc = "backward" /\ LayersFit(layers)) =>
        /\ SincePredict = <<OnSample("predict", fit.sample), OnSample("compute", fit.sample),
                            OnSample("gradient", fit.sample)>>
        /\ fit.input = BatchRow(fit.sample)
        /\ CachesAreOf(layers, fit.input)

\* C29, observation: on every network the calls are in the order backward needs.
C29_OrderOnEveryNetwork ==
    fit.pc = "backward" =>
        /\ SincePredict = <<OnSample("predict", fit.sample), OnSample("compute", fit.sample),
                            OnSample("gradient", fit.sample)>>
        /\ fit.input = BatchRow(fit.sample)

---------------------------------------------------------------------------
(* Properties of the flat network's arrays *)

\* the neurons of layer k, and of the layer before it (none before the first)
NeuronsOf(a, k) == a.layers_[k].neuronCount
NeuronsBefore(a, k) == IF k >= 2 THEN a.layers_[k - 1].neuronCount ELSE 0

RECURSIVE DenseNeurons(_, _)
\* the neurons of the dense layers among the first k layers
DenseNeurons(a, k) ==
    IF k = 0 THEN 0
    ELSE DenseNeurons(a, k - 1) + (IF a.layers_[k].type = "DENSE_LAYER" THEN NeuronsOf(a, k) ELSE 0)

RECURSIVE DenseWeights(_, _)
\* neuronCount(j) * neuronCount(j - 1) summed over the dense layers j among the first k layers
DenseWeights(a, k) ==
    IF k = 0 THEN 0
    ELSE DenseWeights(a, k - 1)
         + (IF a.layers_[k].type = "DENSE_LAYER" THEN NeuronsOf(a, k) * NeuronsBefore(a, k) ELSE 0)

\* the flat arrays agree with layers_
FlatConsistent(a) ==
    /\ \A k \in 2..Len(a.layers_) : a.layers_[k].type # "INPUT_LAYER"
    /\ Len(a.biases_) = DenseNeurons(a, Len(a.layers_))
    /\ Len(a.activations_) = DenseNeurons(a, Len(a.layers_))
    /\ Len(a.weights_) = DenseWeights(a, Len(a.layers_))
    /\ Len(a.layerWeightOffsets_) = Len(a.layers_)
    /\ \A k \in 1..Len(a.layers_) : a.layerWeightOffsets_[k] = DenseWeights(a, k - 1)

\* C30: after any sequence of addLayer calls on the flat network, throwing calls included,
\* INPUT_LAYER occurs only at index 0, biases_ and activations_ hold one entry per neuron of the
\* dense layers of layers_, weights_ holds neuronCount(k) * neuronCount(k - 1) entries per dense
\* layer k, layerWeightOffsets_[k] is where layer k's weights start, and a call that threw left
\* the five containers as they were.
C30_FlatArraysConsistent ==
    /\ FlatConsistent(ann)
    /\ (annLast.op = "addLayer" /\ annLast.status # "ok") => Containers(ann) = annLast.before

\* C30, observation: a second input layer is refused with the five containers untouched.
C30_SecondInputLeavesAll ==
    (annLast.op = "addLayer" /\ annLast.status = "logic_error") => Containers(ann) = annLast.before

\* C30, observation: as long as the first layer added was an input layer, no call throws
\* anything but that refusal and the arrays agree with layers_.
C30_ConsistentWhenInputFirst ==
    (ann.layers_ # <<>> /\ ann.layers_[1].type = "INPUT_LAYER") =>
        /\ FlatConsistent(ann)
        /\ annLast.status \in {"ok", "logic_error"}

====
